---------------------------- MODULE Spec2Model ----------------------------
(***************************************************************************)
(* A model of chatto's event-driven core: the EventHandler of              *)
(* chatto/events.py (queue, subscriber table, process() consumer), the     *)
(* poll loop YouTubeBot.poll_for_messages, YouTubeBot.run and              *)
(* YouTubeBot.close of chatto/youtube.py, and the token handling of        *)
(* chatto/oauth.py (authorise, set_tokens, auto_refresh_tokens).           *)
(*                                                                         *)
(* Everything runs on one asyncio loop, so a coroutine runs atomically     *)
(* from one real suspension point to the next.  asyncio.Queue() is         *)
(* unbounded, hence put() never suspends and dispatch() is one step;       *)
(* the suspension points are queue.get() on an empty queue, an awaited     *)
(* callback, the GET request and asyncio.sleep().                          *)
(***************************************************************************)
EXTENDS Integers, Sequences, FiniteSets, TLC

(***************************************************************************)
(* Bounds of the model.                                                    *)
(***************************************************************************)
\* successful dispatch calls made by the producers of SpecEvents
MaxEvents == 2
\* callbacks registered by subscribe calls in SpecEvents
MaxSubs == 2
\* GET requests issued by the poll loop in SpecPoll
MaxPolls == 3
\* items in one page of a poll response
MaxItems == 2
\* refresh cycles begun by the auto_refresh_tokens task
MaxRefreshes == 2
\* GET requests issued by the poll loop in SpecRun
MaxRunPolls == 1
\* refresh cycles begun by the auto_refresh_tokens task in SpecRun and SpecSend
MaxRunRefreshes == 1
\* send_message calls made in SpecSend
MaxSends == 2
\* stream resolutions made in SpecStream
MaxResolutions == 2
\* Message and Channel values built in SpecBuild
MaxBuilds == 1

(***************************************************************************)
(* Program constants.                                                      *)
(***************************************************************************)
\* youtube.py:291  400 <= exc.code <= 499
ClientErrorLow == 400
ClientErrorHigh == 499
\* youtube.py:297  await asyncio.sleep(5), kept in milliseconds
RetryDelayMs == 5000
\* oauth.py:196  await asyncio.sleep(3600), in seconds
RefreshPeriodS == 3600

VARIABLES
    hasQueue,     \* EventHandler._queue is set (events.py:125, 140)
    queue,        \* the content of EventHandler._queue, head first
    callbacks,    \* EventHandler.callbacks: a defaultdict(list), type -> callbacks
    procPc,       \* position of the process() task
    procEvent,    \* process(): the local `event`
    procIdx,      \* process(): position of the for loop in the callback list
    dispatched,   \* history: every event a dispatch call enqueued, in call order
    dequeued,     \* history: every event process() took from the queue
    invoked,      \* history: every callback invocation made by process()
    last,         \* the call or task step made last, with its result
    stream,       \* YouTubeBot._stream
    pollPc,       \* position of the poll_for_messages task
    page_token,   \* poll_for_messages: the local `page_token`
    sleepMs,      \* poll_for_messages: duration of the sleep in progress
    polls         \* history: one record per poll iteration

VARIABLES
    hasSecrets,   \* YouTubeBot._secrets is set (youtube.py:118-119, oauth.py:109)
    tokens,       \* YouTubeBot.tokens, the OAuth token blob in memory
    tokenFile,    \* the content of tokens.json next to the secrets file
    refreshPc,    \* position of the auto_refresh_tokens task
    tokenOps,     \* history: one record per authorise call or refresh cycle
    refreshLog,   \* history: the sleeps and refresh attempts of auto_refresh_tokens
    runPc,        \* position of run() and of the close() it ends with
    read_only,    \* run(): the keyword argument read_only
    session,      \* YouTubeBot._session: "none", "open" or "closed"
    sessionsCreated, \* history: ClientSession objects constructed
    sessionsClosed,  \* history: ClientSession.close() calls completed
    loopClosed,   \* the event loop has been closed (youtube.py:432)
    tasks,        \* the tasks run() created on the loop
    pending,      \* close(): the tasks of `pending` not yet visited by the for loop
    cancelReq,    \* close(): the task cancelled and now awaited, or "none"
    cancelledAt,  \* history: where each task was when CancelledError reached it
    runExc        \* the exception run() ends with

VARIABLES
    resolutions,  \* history: one record per stream resolution
    sends,        \* history: one record per send_message call
    builds        \* history: one record per Message or Channel built from a payload

busVars == <<hasQueue, queue, callbacks, procPc, procEvent, procIdx>>
busLogs == <<dispatched, dequeued, invoked>>
pollVars == <<stream, pollPc, page_token, sleepMs, polls>>
authVars == <<hasSecrets, tokens, tokenFile, refreshPc, tokenOps, refreshLog>>
runVars == <<runPc, read_only, session, sessionsCreated, sessionsClosed, loopClosed,
             tasks, pending, cancelReq, cancelledAt, runExc>>
callVars == <<resolutions, sends, builds>>
botVars == <<authVars, runVars, callVars>>
vars == <<busVars, busLogs, last, pollVars, botVars>>

(***************************************************************************)
(* Values.                                                                 *)
(***************************************************************************)
\* events.py:47-104, the Event dataclasses
EventTypes ==
    {"Event", "ReadyEvent", "MessageCreatedEvent", "StreamFetchedEvent",
     "ChatPolledEvent", "MessageSentEvent", "AuthorisedEvent"}

\* event_type(*args): a frozen dataclass, equal by type and fields
MkEvent(event_type, args) == [type |-> event_type, args |-> args]

NoEvent == [type |-> "unbound", args |-> <<>>]

\* exceptions: the class, the HTTP code of an HTTPError, the message
Exc(type, code, msg) == [type |-> type, code |-> code, msg |-> msg]
NoExc == Exc("none", 0, "")
\* errors.py:64-66, raised at events.py:146 and events.py:179
NoEventQueue == Exc("NoEventQueue", 0, "there is no event queue")
\* errors.py:35-52
HTTPError(code, body) == Exc("HTTPError", code, body)

\* the coroutine functions user code subscribes
CallbackIds == {"cb1", "cb2"}


\* the messages the producers of SpecEvents attach to a MessageCreatedEvent
BusMessages == {[id |-> "m1"], [id |-> "m2"]}

\* dispatch(event_type, *args) calls made in SpecEvents, as <<event_type, args>>
BusDispatches ==
    {<<"ReadyEvent", <<>>>>} \cup {<<"MessageCreatedEvent", <<m>>>> : m \in BusMessages}

\* the event types callbacks are subscribed to in SpecEvents
BusTypes == {"ReadyEvent", "MessageCreatedEvent"}

\* subscribe(event_type, *callbacks): the callback lists passed in SpecEvents
BusCallbackLists ==
    {<<>>} \cup {<<c>> : c \in CallbackIds}
    \cup {p \in CallbackIds \X CallbackIds : p[1] # p[2]}

(***************************************************************************)
(* EventHandler, chatto/events.py.                                         *)
(***************************************************************************)
\* a variant of NoQueue that never finds the queue missing
NoQueue_Never == FALSE

\* events.py:145, 178  `if not self.queue` (asyncio.Queue has no __len__ and
\* no __bool__: an existing queue is truthy even when empty)
NoQueue == ~hasQueue

\* events.py:127-134
queue_size == IF NoQueue THEN 0 ELSE Len(queue)

\* a variant of QueuePut for a queue of capacity 1 that takes nothing more
QueuePut_Bounded(q, event) == IF Len(q) >= 1 THEN q ELSE Append(q, event)

\* events.py:182  self._queue.put(event) on an unbounded asyncio.Queue
QueuePut(q, event) == Append(q, event)

\* a variant of QueueGet that takes the newest item
QueueGet_Newest(q) == [item |-> q[Len(q)], rest |-> SubSeq(q, 1, Len(q) - 1)]

\* events.py:150  self._queue.get(): the item and the rest of the queue
QueueGet(q) == [item |-> Head(q), rest |-> Tail(q)]

\* a variant of CallbacksOf that also finds the callbacks of the base class,
\* as an isinstance test would
CallbacksOf_WithBase(cbs, event_type) ==
    (IF event_type \in DOMAIN cbs THEN cbs[event_type] ELSE <<>>)
    \o (IF event_type # "Event" /\ "Event" \in DOMAIN cbs THEN cbs["Event"] ELSE <<>>)

\* events.py:152  self.callbacks[event.__class__] read from the defaultdict
CallbacksOf(cbs, event_type) ==
    IF event_type \in DOMAIN cbs THEN cbs[event_type] ELSE <<>>

\* events.py:152  the same lookup leaves a missing key in the defaultdict
Touch(cbs, event_type) ==
    IF event_type \in DOMAIN cbs THEN cbs ELSE cbs @@ (event_type :> <<>>)

\* a record of `last`
Step(op, event_type, args, ret, exc) ==
    [op |-> op, type |-> event_type, args |-> args, ret |-> ret, exc |-> exc]

\* a record of `dequeued`: the event and the callbacks subscribed to its type
\* when it was taken from the queue
Taken(event, subscribed) == [event |-> event, subscribed |-> subscribed]

\* a record of `invoked`: callback cb, at position idx of the list, called with
\* event arg, the ev-th event dequeued; st is "running", "returned" or "raised"
Call(ev, idx, cb, arg, st) ==
    [ev |-> ev, idx |-> idx, cb |-> cb, arg |-> arg, st |-> st]

\* events.py:186-207
subscribe(event_type, cbList) ==
    /\ callbacks' =
         IF cbList = <<>> THEN callbacks
         ELSE [t \in DOMAIN callbacks \cup {event_type} |->
                 IF t = event_type THEN CallbacksOf(callbacks, t) \o cbList
                 ELSE callbacks[t]]
    /\ last' = Step("subscribe", event_type, cbList, NoEvent, NoExc)
    /\ UNCHANGED <<hasQueue, queue, procPc, procEvent, procIdx, busLogs, pollVars, botVars>>

\* events.py:136-140
create_queue ==
    /\ hasQueue' = TRUE
    /\ queue' = <<>>
    /\ last' = Step("create_queue", "", <<>>, NoEvent, NoExc)
    /\ UNCHANGED <<callbacks, procPc, procEvent, procIdx, busLogs, pollVars, botVars>>

\* events.py:160-184
dispatch(event_type, args) ==
    IF NoQueue
    THEN /\ last' = Step("dispatch", event_type, args, NoEvent, NoEventQueue)
         /\ UNCHANGED <<busVars, busLogs, pollVars, botVars>>
    ELSE LET event == MkEvent(event_type, args) IN
         /\ queue' = QueuePut(queue, event)
         /\ dispatched' = Append(dispatched, event)
         /\ last' = Step("dispatch", event_type, args, event, NoExc)
         /\ UNCHANGED <<hasQueue, callbacks, procPc, procEvent, procIdx,
                        dequeued, invoked, pollVars, botVars>>

\* events.py:142-148  process() is started: the queue check, then the loop
ProcessStart ==
    /\ procPc = "idle"
    /\ IF NoQueue
       THEN /\ procPc' = "failed"
            /\ last' = Step("process", "", <<>>, NoEvent, NoEventQueue)
       ELSE /\ procPc' = "get"
            /\ last' = Step("process", "", <<>>, NoEvent, NoExc)
    /\ UNCHANGED <<hasQueue, queue, callbacks, procEvent, procIdx, busLogs, pollVars, botVars>>

\* events.py:152-154  the for loop reaches position idx of the live list: it
\* calls that callback, or is over and process() goes back to queue.get()
ForLoopAt(idx, cbs, event, k, log) ==
    IF idx <= Len(CallbacksOf(cbs, event.type))
    THEN [pc |-> "cb", idx |-> idx,
          log |-> Append(log, Call(k, idx, CallbacksOf(cbs, event.type)[idx],
                                   event, "running"))]
    ELSE [pc |-> "get", idx |-> 0, log |-> log]

\* events.py:150-154  queue.get() returns an event and the for loop starts
ProcessGet ==
    /\ procPc = "get"
    /\ hasQueue
    /\ queue # <<>>
    /\ LET got == QueueGet(queue)
           k == Len(dequeued) + 1
           loop == ForLoopAt(1, callbacks, got.item, k, invoked)
       IN /\ queue' = got.rest
          /\ procEvent' = got.item
          /\ callbacks' = Touch(callbacks, got.item.type)
          /\ dequeued' =
               Append(dequeued, Taken(got.item, CallbacksOf(callbacks, got.item.type)))
          /\ procPc' = loop.pc
          /\ procIdx' = loop.idx
          /\ invoked' = loop.log
          /\ last' = Step("get", got.item.type, got.item.args, got.item, NoExc)
    /\ UNCHANGED <<hasQueue, dispatched, pollVars, botVars>>

\* the invocation in progress is closed with outcome st
Finish(log, st) == [log EXCEPT ![Len(log)].st = st]

\* events.py:154, 152  the awaited callback returns: the for loop goes on
CallbackReturns ==
    /\ procPc = "cb"
    /\ LET loop == ForLoopAt(procIdx + 1, callbacks, procEvent, Len(dequeued),
                             Finish(invoked, "returned"))
       IN /\ procPc' = loop.pc
          /\ procIdx' = loop.idx
          /\ invoked' = loop.log
    /\ last' = Step("callback", procEvent.type, procEvent.args, NoEvent, NoExc)
    /\ UNCHANGED <<hasQueue, queue, callbacks, procEvent, dispatched, dequeued, pollVars, botVars>>

\* a variant of AfterExcept where the exception ends process()
AfterExcept_Ended == "ended"

\* events.py:156-158, 148  where process() is after its except clause
AfterExcept == "get"

\* events.py:154-158  the awaited callback raises an Exception: the except
\* clause around the whole for loop logs it, and the while loop goes on
CallbackRaises ==
    /\ procPc = "cb"
    /\ procPc' = AfterExcept
    /\ procIdx' = 0
    /\ invoked' = Finish(invoked, "raised")
    /\ last' = Step("callback", procEvent.type, procEvent.args, NoEvent,
                    Exc("Exception", 0, ""))
    /\ UNCHANGED <<hasQueue, queue, callbacks, procEvent, dispatched, dequeued, pollVars, botVars>>

(***************************************************************************)
(* The messages endpoint, as the poll loop sees it.                        *)
(***************************************************************************)
\* liveChatMessage resources.  `complete` says whether the resource holds
\* every key Message.from_youtube reads (message.py:79-87); a resource that
\* lacks one (a tombstone has no displayMessage) makes it raise KeyError.
Items ==
    {[id |-> "i1", complete |-> TRUE],
     [id |-> "i2", complete |-> TRUE],
     [id |-> "i3", complete |-> FALSE]}

\* pages: up to MaxItems different resources, in any order
Pages ==
    UNION {{p \in [1..n -> Items] : \A i, j \in 1..n : p[i] = p[j] => i = j} :
           n \in 0..MaxItems}

\* the cursors the server hands out: a new one with each page
PageTokens == <<"tok1", "tok2", "tok3", "tok4", "tok5", "tok6">>

\* pollingIntervalMillis values
PollingIntervals == {1000}

\* the codes of the error envelopes the server sends
ErrorCodes == {399, 400, 499, 500}

\* what a GET returns: kind "ok" is a body with items, nextPageToken and
\* pollingIntervalMillis; kind "error" a body with an error object of that
\* code; kind "fail" a request that raises (connection lost, body not JSON)
Response(kind, items, next, interval, code) ==
    [kind |-> kind, items |-> items, nextPageToken |-> next,
     pollingIntervalMillis |-> interval, code |-> code]

NoResponse == Response("none", <<>>, "", 0, 0)

\* the answers the server may give to the n-th request
Responses(n) ==
    {Response("ok", p, PageTokens[n], ms, 0) : p \in Pages, ms \in PollingIntervals}
    \cup {Response("error", <<>>, "", 0, c) : c \in ErrorCodes}
    \cup {Response("fail", <<>>, "", 0, 0)}

(***************************************************************************)
(* YouTubeBot.poll_for_messages, chatto/youtube.py.                        *)
(***************************************************************************)
\* a value or an exception
Returned(value) == [exc |-> NoExc, value |-> value]
Raised(exc) == [exc |-> exc, value |-> NoResponse]

\* a variant of make_request that returns the body without looking for an
\* error object
make_request_Unchecked(r) ==
    IF r.kind = "fail" THEN Raised(Exc("ClientError", 0, "")) ELSE Returned(r)

\* youtube.py:224-247
make_request(r) ==
    IF r.kind = "fail" THEN Raised(Exc("ClientError", 0, ""))
    ELSE IF r.kind = "error" THEN Raised(HTTPError(r.code, "message"))
    ELSE Returned(r)

\* message.py:77-87 (the fields this model follows: id and stream)
from_youtube(item, s) == [id |-> item.id, stream |-> s]

\* a variant of HasNewMessages that forgets the first-poll guard
HasNewMessages_AnyPage(new_items, token) == new_items # <<>>

\* youtube.py:277  `if new_items and page_token`
HasNewMessages(new_items, token) == new_items # <<>> /\ token # ""

RECURSIVE ForItems_Reversed(_, _, _)
\* a variant of ForItems that dispatches the page last item first
ForItems_Reversed(new_items, s, sent) ==
    IF new_items = <<>> THEN [events |-> sent, exc |-> NoExc]
    ELSE IF ~new_items[Len(new_items)].complete
         THEN [events |-> sent, exc |-> Exc("KeyError", 0, "")]
         ELSE ForItems_Reversed(SubSeq(new_items, 1, Len(new_items) - 1), s,
                                Append(sent, MkEvent("MessageCreatedEvent",
                                    <<from_youtube(new_items[Len(new_items)], s)>>)))

\* youtube.py:280-282  the for loop over the items of the page: the events it
\* dispatches, and the exception that ends it early
RECURSIVE ForItems(_, _, _)
ForItems(new_items, s, sent) ==
    IF new_items = <<>> THEN [events |-> sent, exc |-> NoExc]
    ELSE IF ~Head(new_items).complete
         THEN [events |-> sent, exc |-> Exc("KeyError", 0, "")]
         ELSE ForItems(Tail(new_items), s,
                       Append(sent, MkEvent("MessageCreatedEvent",
                                            <<from_youtube(Head(new_items), s)>>)))

\* the outcome of the try block: the events dispatched, the exception raised,
\* the value of page_token and the sleep started
Outcome(events, exc, token, slept, ms) ==
    [events |-> events, exc |-> exc, page_token |-> token, slept |-> slept, ms |-> ms]

\* a variant of TryBlock that moves page_token on before the items are
\* turned into messages
TryBlock_AdvancesFirst(r, token, s, noQueue) ==
    LET got == make_request(r) IN
    IF got.exc # NoExc THEN Outcome(<<>>, got.exc, token, FALSE, 0)
    ELSE IF noQueue THEN Outcome(<<>>, NoEventQueue, token, FALSE, 0)
    ELSE LET data == got.value
             polled == <<MkEvent("ChatPolledEvent", <<data>>)>>
             loop == IF HasNewMessages(data.items, token)
                     THEN ForItems(data.items, s, <<>>)
                     ELSE [events |-> <<>>, exc |-> NoExc]
         IN IF loop.exc # NoExc
            THEN Outcome(polled \o loop.events, loop.exc, data.nextPageToken, FALSE, 0)
            ELSE Outcome(polled \o loop.events, NoExc, data.nextPageToken,
                         TRUE, data.pollingIntervalMillis)

\* youtube.py:273-287  the try block, from the answer to the request on
TryBlock(r, token, s, noQueue) ==
    LET got == make_request(r) IN
    IF got.exc # NoExc THEN Outcome(<<>>, got.exc, token, FALSE, 0)
    ELSE IF noQueue THEN Outcome(<<>>, NoEventQueue, token, FALSE, 0)
    ELSE LET data == got.value
             polled == <<MkEvent("ChatPolledEvent", <<data>>)>>
             loop == IF HasNewMessages(data.items, token)
                     THEN ForItems(data.items, s, <<>>)
                     ELSE [events |-> <<>>, exc |-> NoExc]
         IN IF loop.exc # NoExc
            THEN Outcome(polled \o loop.events, loop.exc, token, FALSE, 0)
            ELSE Outcome(polled \o loop.events, NoExc, data.nextPageToken,
                         TRUE, data.pollingIntervalMillis)

\* a variant of IsClientError with the upper bound left out
IsClientError_NoUpperBound(exc) ==
    exc.type = "HTTPError" /\ ClientErrorLow <= exc.code

\* youtube.py:290-291
IsClientError(exc) ==
    exc.type = "HTTPError" /\ ClientErrorLow <= exc.code /\ exc.code <= ClientErrorHigh

\* a variant of ExceptClause that goes round the loop at once
ExceptClause_NoSleep(out) ==
    IF IsClientError(out.exc)
    THEN [pc |-> "returned", slept |-> FALSE, ms |-> 0]
    ELSE [pc |-> "request", slept |-> FALSE, ms |-> 0]

\* youtube.py:289-297  the except clause: return, or sleep 5 seconds
ExceptClause(out) ==
    IF IsClientError(out.exc)
    THEN [pc |-> "returned", slept |-> FALSE, ms |-> 0]
    ELSE [pc |-> "sleeping", slept |-> TRUE, ms |-> RetryDelayMs]

\* a record of `polls`: the cursor sent, the answer, the events dispatched
\* (dispatched[from+1..to]), the exception, the sleep and the cursor afterwards
Poll(token, r, from, to, exc, slept, ms, after) ==
    [token |-> token, resp |-> r, from |-> from, to |-> to, exc |-> exc,
     slept |-> slept, ms |-> ms, after |-> after]

RECURSIVE PutAll(_, _)
\* events.py:182 applied to each event of a sequence in turn
PutAll(q, events) ==
    IF events = <<>> THEN q ELSE PutAll(QueuePut(q, Head(events)), Tail(events))

\* youtube.py:272-273  the GET request is sent with the current page_token
PollRequest ==
    /\ pollPc = "request"
    /\ Len(polls) < MaxPolls
    /\ pollPc' = "awaiting"
    /\ polls' = Append(polls, Poll(page_token, NoResponse, Len(dispatched),
                                   Len(dispatched), NoExc, FALSE, 0, page_token))
    /\ last' = Step("poll_request", "", <<>>, NoEvent, NoExc)
    /\ UNCHANGED <<busVars, busLogs, stream, page_token, sleepMs, botVars>>

\* youtube.py:273-297  the request is answered: the rest of the try block,
\* and the except clause when it raises, up to the sleep or the return
PollResponse(r) ==
    /\ pollPc = "awaiting"
    /\ LET out == TryBlock(r, page_token, stream, NoQueue)
           end == IF out.exc = NoExc
                  THEN [pc |-> "sleeping", slept |-> out.slept, ms |-> out.ms]
                  ELSE ExceptClause(out)
           n == Len(polls)
       IN /\ queue' = PutAll(queue, out.events)
          /\ dispatched' = dispatched \o out.events
          /\ page_token' = out.page_token
          /\ pollPc' = end.pc
          /\ sleepMs' = end.ms
          /\ polls' = [polls EXCEPT ![n] =
                         Poll(polls[n].token, r, polls[n].from,
                              polls[n].from + Len(out.events), out.exc,
                              end.slept, end.ms, out.page_token)]
          /\ last' = Step("poll_response", "", <<>>, NoEvent, out.exc)
    /\ UNCHANGED <<hasQueue, callbacks, procPc, procEvent, procIdx, dequeued,
                   invoked, stream, botVars>>

\* youtube.py:287, 297, 270  the sleep is over and the while loop goes round
PollWake ==
    /\ pollPc = "sleeping"
    /\ Len(polls) < MaxPolls
    /\ pollPc' = "request"
    /\ sleepMs' = 0
    /\ last' = Step("poll_wake", "", <<>>, NoEvent, NoExc)
    /\ UNCHANGED <<busVars, busLogs, stream, page_token, polls, botVars>>

(***************************************************************************)
(* OAuth tokens, chatto/oauth.py.                                          *)
(***************************************************************************)
\* a token blob: a dict with some of the keys access_token, refresh_token and
\* expires_in.  json.dumps / json.loads keep such a dict as it is, so the
\* content of tokens.json is modelled by the dict written to it.
Blob(keys, access, refresh, expires) ==
    [keys |-> keys, access_token |-> access, refresh_token |-> refresh,
     expires_in |-> expires]

\* youtube.py:115 and oauth.py:179  the empty dict
EmptyBlob == Blob({}, "", "", 0)

AllKeys == {"access_token", "refresh_token", "expires_in"}

\* oauth.py:120-122  tokens.json: present with a content, or absent
File(blob) == [is_file |-> TRUE, content |-> blob]
NoFile == [is_file |-> FALSE, content |-> EmptyBlob]

\* the blob a token file of an earlier run holds
StoredBlob == Blob(AllKeys, "stored", "r0", 3599)

\* what the token endpoint returns for an authorization-code exchange
ExchangedBlob == Blob(AllKeys, "exchanged", "r1", 3599)

\* what the token endpoint returns for a refresh grant: no refresh_token
RefreshData == Blob({"access_token", "expires_in"}, "refreshed", "", 3599)

\* the answers of the tokeninfo endpoint: expires_in, or a body without it
Introspections ==
    {[kind |-> "ok", expires_in |-> e] : e \in {-1, 0, 1800}}
    \cup {[kind |-> "error", expires_in |-> 0]}

\* the answers of the token endpoint to a refresh POST: a 2xx status, another
\* status, or a request that raises
RefreshAnswers == {"ok", "notok", "fail"}

\* the answers of the token endpoint to the exchange POST: 2xx or not
ExchangeAnswers == {"ok", "error"}

\* the answers of the servers during one authorise call
Answers(intro, refresh, exchange) ==
    [intro |-> intro, refresh |-> refresh, exchange |-> exchange]

\* bool(tokens) for a dict
Truthy(blob) == blob.keys # {}

\* a blob or an exception, with the operations performed to get it
Got(blob, exc, ops) == [blob |-> blob, exc |-> exc, ops |-> ops]

\* oauth.py:158-170  the interactive authorization-code exchange
fetch_tokens(answer) ==
    IF answer = "ok" THEN Got(ExchangedBlob, NoExc, <<"exchange">>)
    ELSE Got(EmptyBlob, Exc("ClientResponseError", 0, ""), <<"exchange">>)

\* a success body of the token endpoint that carries a refresh_token of its
\* own (the endpoint may rotate refresh tokens)
RotatedData == Blob(AllKeys, "refreshed", "r9", 3599)

\* oauth.py:181  `data = await r.json()`: the body of a success answer
RefreshBody(answer) == IF answer = "rotated" THEN RotatedData ELSE RefreshData

\* a variant of update that keeps a refresh_token the body already has
update_IfAbsent(data, refresh_token) ==
    IF "refresh_token" \in data.keys THEN data
    ELSE [data EXCEPT !.keys = @ \cup {"refresh_token"},
                      !.refresh_token = refresh_token]

\* oauth.py:183  data.update({"refresh_token": tokens["refresh_token"]})
update(data, refresh_token) ==
    [data EXCEPT !.keys = @ \cup {"refresh_token"}, !.refresh_token = refresh_token]

\* oauth.py:172-184
refresh_tokens(toks, answer) ==
    IF "refresh_token" \notin toks.keys
    THEN Got(EmptyBlob, Exc("KeyError", 0, "refresh_token"), <<>>)
    ELSE IF answer = "fail"
         THEN Got(EmptyBlob, Exc("ClientError", 0, ""), <<"refresh">>)
    ELSE IF answer = "notok" THEN Got(EmptyBlob, NoExc, <<"refresh">>)
    ELSE Got(update(RefreshBody(answer), toks.refresh_token), NoExc, <<"refresh">>)

\* the outcome of a token operation: the operations performed in order, the
\* blob in memory and the token file afterwards, the events dispatched and the
\* exception raised
TokenOutcome(ops, toks, file, events, exc) ==
    [ops |-> ops, tokens |-> toks, file |-> file, events |-> events, exc |-> exc]

\* the secrets object an AuthorisedEvent carries
SecretsObj == "secrets"

\* a variant of set_tokens that does not write the file
set_tokens_NoWrite(ops, blob, file, noQueue) ==
    IF noQueue
    THEN TokenOutcome(ops \o <<"dispatch">>, blob, file, <<>>, NoEventQueue)
    ELSE TokenOutcome(ops \o <<"dispatch">>, blob, file,
                      <<MkEvent("AuthorisedEvent", <<SecretsObj, blob>>)>>, NoExc)

\* oauth.py:150-156  after the operations ops: assign, write the file, dispatch
set_tokens(ops, blob, file, noQueue) ==
    IF noQueue
    THEN TokenOutcome(ops \o <<"write", "dispatch">>, blob, File(blob), <<>>,
                      NoEventQueue)
    ELSE TokenOutcome(ops \o <<"write", "dispatch">>, blob, File(blob),
                      <<MkEvent("AuthorisedEvent", <<SecretsObj, blob>>)>>, NoExc)

\* a variant of ForcesExchange that looks at the file only
ForcesExchange_FileOnly(force, file) == ~file.is_file

\* oauth.py:122  `if force or not tokens_path.is_file()`
ForcesExchange(force, file) == force \/ ~file.is_file

\* a variant of Expired that takes 0 for expired
Expired_AtZero(expires_in) == expires_in <= 0

\* oauth.py:136  `if token_expires_in < 0`
Expired(expires_in) == expires_in < 0

\* oauth.py:111-146  authorise(force=...), given the answers of the servers,
\* the session, the blob in memory and the token file
AuthoriseBody(force, ans, secretsSet, sess, cur, file, noQueue) ==
    IF ~secretsSet
    THEN TokenOutcome(<<>>, cur, file, <<>>, Exc("NoSecrets", 0, ""))
    ELSE IF sess = "none"
    THEN TokenOutcome(<<>>, cur, file, <<>>, Exc("NoSession", 0, ""))
    ELSE IF ForcesExchange(force, file)
    THEN LET got == fetch_tokens(ans.exchange) IN
         IF got.exc # NoExc THEN TokenOutcome(got.ops, cur, file, <<>>, got.exc)
         ELSE set_tokens(got.ops, got.blob, file, noQueue)
    ELSE IF "access_token" \notin file.content.keys
    THEN TokenOutcome(<<"load">>, cur, file, <<>>, Exc("KeyError", 0, "access_token"))
    ELSE IF ans.intro.kind # "ok"
    THEN TokenOutcome(<<"load", "introspect">>, cur, file, <<>>,
                      Exc("KeyError", 0, "expires_in"))
    ELSE LET checked == [file.content EXCEPT !.expires_in = ans.intro.expires_in,
                                             !.keys = @ \cup {"expires_in"}]
             refreshed == IF Expired(ans.intro.expires_in)
                          THEN refresh_tokens(checked, ans.refresh)
                          ELSE Got(checked, NoExc, <<>>)
             manual == IF refreshed.exc = NoExc /\ ~Truthy(refreshed.blob)
                       THEN fetch_tokens(ans.exchange)
                       ELSE Got(refreshed.blob, refreshed.exc, <<>>)
             ops == <<"load", "introspect">> \o refreshed.ops \o manual.ops
         IN IF manual.exc # NoExc THEN TokenOutcome(ops, cur, file, <<>>, manual.exc)
            ELSE set_tokens(ops, manual.blob, file, noQueue)

\* a record of `tokenOps`: who ran the operation, with which argument, token
\* file and answers, and its outcome; the events it dispatched are
\* dispatched[from+1..to]
TokenOp(by, force, file, ans, out, from) ==
    [by |-> by, force |-> force, file |-> file, ans |-> ans, ops |-> out.ops,
     exc |-> out.exc, tokens |-> out.tokens, stored |-> out.file,
     from |-> from, to |-> from + Len(out.events)]

\* what a token operation with outcome out leaves behind
TokenEffects(by, force, ans, out) ==
    /\ tokens' = out.tokens
    /\ tokenFile' = out.file
    /\ queue' = PutAll(queue, out.events)
    /\ dispatched' = dispatched \o out.events
    /\ tokenOps' = Append(tokenOps, TokenOp(by, force, tokenFile, ans, out,
                                            Len(dispatched)))
    /\ last' = Step(by, "", <<>>, NoEvent, out.exc)

\* oauth.py:111-146  one call of authorise: run() awaits it before any task
\* exists (youtube.py:387), so nothing runs between its suspension points
authorise(force, ans) ==
    /\ TokenEffects("authorise", force, ans,
                    AuthoriseBody(force, ans, hasSecrets, session, tokens, tokenFile,
                                  NoQueue))
    /\ UNCHANGED <<hasQueue, callbacks, procPc, procEvent, procIdx, dequeued, invoked,
                   pollVars, hasSecrets, refreshPc, refreshLog, callVars>>

(***************************************************************************)
(* The auto_refresh_tokens task, oauth.py:186-196.                         *)
(***************************************************************************)
\* a record of `refreshLog`
Slept(seconds) == [op |-> "sleep", s |-> seconds, answer |-> ""]
Attempt(answer) == [op |-> "refresh", s |-> 0, answer |-> answer]

\* refresh cycles begun so far
Attempts == Len(SelectSeq(refreshLog, LAMBDA e : e.op = "refresh"))

\* no answers: a token operation that made no request
NoAnswers == Answers([kind |-> "none", expires_in |-> 0], "none", "none")

\* oauth.py:187-188  the task starts: tokens_path, then sleep(initial_delay);
\* initial_delay is tokens["expires_in"] as run() read it when it created the
\* task (youtube.py:394), and tokens cannot change before the task starts
RefreshStart ==
    /\ refreshPc = "created"
    /\ IF ~hasSecrets
       THEN /\ refreshPc' = "failed"
            /\ refreshLog' = refreshLog
            /\ last' = Step("auto_refresh", "", <<>>, NoEvent,
                            Exc("AttributeError", 0, "_secrets"))
       ELSE /\ refreshPc' = "sleeping"
            /\ refreshLog' = Append(refreshLog, Slept(tokens.expires_in))
            /\ last' = Step("auto_refresh", "", <<>>, NoEvent, NoExc)
    /\ UNCHANGED <<busVars, busLogs, pollVars, hasSecrets, tokens, tokenFile, tokenOps,
                   runVars, callVars>>

\* oauth.py:190-192, 175-177  the sleep is over: _refresh_tokens reads
\* tokens["refresh_token"] and sends the POST
RefreshWake ==
    /\ refreshPc = "sleeping"
    /\ Attempts < MaxRefreshes
    /\ IF "refresh_token" \notin tokens.keys
       THEN /\ refreshPc' = "failed"
            /\ refreshLog' = Append(refreshLog, Attempt("none"))
            /\ TokenEffects("auto_refresh", FALSE, NoAnswers,
                            TokenOutcome(<<>>, tokens, tokenFile, <<>>,
                                         Exc("KeyError", 0, "refresh_token")))
       ELSE IF session # "open"
       THEN /\ refreshPc' = "failed"
            /\ refreshLog' = Append(refreshLog, Attempt("none"))
            /\ TokenEffects("auto_refresh", FALSE, NoAnswers,
                            TokenOutcome(<<>>, tokens, tokenFile, <<>>,
                                         Exc("RuntimeError", 0, "Session is closed")))
       ELSE /\ refreshPc' = "posting"
            /\ refreshLog' = Append(refreshLog, Attempt("sent"))
            /\ last' = Step("auto_refresh", "", <<>>, NoEvent, NoExc)
            /\ UNCHANGED <<queue, dispatched, tokens, tokenFile, tokenOps>>
    /\ UNCHANGED <<hasQueue, callbacks, procPc, procEvent, procIdx, dequeued, invoked,
                   pollVars, hasSecrets, runVars, callVars>>

\* oauth.py:177-184, 191-196  the POST is answered: the rest of
\* _refresh_tokens, set_tokens with what it returned, then sleep(3600)
RefreshAnswer(answer) ==
    /\ refreshPc = "posting"
    /\ LET got == refresh_tokens(tokens, answer)
           out == IF got.exc # NoExc
                  THEN TokenOutcome(got.ops, tokens, tokenFile, <<>>, got.exc)
                  ELSE set_tokens(got.ops, got.blob, tokenFile, NoQueue)
       IN /\ TokenEffects("auto_refresh", FALSE,
                          Answers(NoAnswers.intro, answer, "none"), out)
          /\ refreshPc' = IF out.exc # NoExc THEN "failed" ELSE "sleeping"
          /\ refreshLog' =
               LET seen == [refreshLog EXCEPT ![Len(refreshLog)] = Attempt(answer)]
               IN IF out.exc # NoExc THEN seen
                  ELSE Append(seen, Slept(RefreshPeriodS))
    /\ UNCHANGED <<hasQueue, callbacks, procPc, procEvent, procIdx, dequeued, invoked,
                   pollVars, hasSecrets, runVars, callVars>>

\* youtube.py:104-119  the bot as the constructor leaves it, with or without
\* secrets, next to a token file or not, the session and where run() is
InitBot(secretsSet, file, pc, sess, ro) ==
    /\ hasSecrets = secretsSet
    /\ tokens = EmptyBlob
    /\ tokenFile = file
    /\ refreshPc = "idle"
    /\ tokenOps = <<>>
    /\ refreshLog = <<>>
    /\ runPc = pc
    /\ read_only \in ro
    /\ session = sess
    /\ sessionsCreated = IF sess = "none" THEN 0 ELSE 1
    /\ sessionsClosed = 0
    /\ loopClosed = FALSE
    /\ tasks = {}
    /\ pending = {}
    /\ cancelReq = "none"
    /\ cancelledAt = <<>>
    /\ runExc = NoExc
    /\ resolutions = <<>>
    /\ sends = <<>>
    /\ builds = <<>>

(***************************************************************************)
(* SpecEvents: an EventHandler on its own, as in tests/test_events.py.     *)
(* User code subscribes callbacks, creates the queue once (as run() does,  *)
(* youtube.py:383), starts process() and dispatches events, in any order.  *)
(***************************************************************************)
RECURSIVE SumLen(_, _)
SumLen(f, keys) ==
    IF keys = {} THEN 0
    ELSE LET k == CHOOSE x \in keys : TRUE
         IN Len(f[k]) + SumLen(f, keys \ {k})

\* the callbacks registered so far
Subscribed == SumLen(callbacks, DOMAIN callbacks)

NoStream == [id |-> "", chat_id |-> ""]

InitBus ==
    /\ queue = <<>>
    /\ callbacks = <<>>
    /\ procPc = "idle"
    /\ procEvent = NoEvent
    /\ procIdx = 0
    /\ dispatched = <<>>
    /\ dequeued = <<>>
    /\ invoked = <<>>
    /\ last = Step("init", "", <<>>, NoEvent, NoExc)

InitEvents ==
    /\ InitBus
    /\ hasQueue = FALSE
    /\ stream = NoStream
    /\ pollPc = "idle"
    /\ page_token = ""
    /\ sleepMs = 0
    /\ polls = <<>>
    /\ InitBot(FALSE, NoFile, "idle", "none", {FALSE})

UserSubscribes ==
    \E t \in BusTypes, cbList \in BusCallbackLists :
        /\ Subscribed + Len(cbList) <= MaxSubs
        /\ subscribe(t, cbList)

UserCreatesQueue == NoQueue /\ create_queue

UserDispatches ==
    \E d \in BusDispatches :
        /\ Len(dispatched) < MaxEvents
        /\ dispatch(d[1], d[2])

NextEvents ==
    \/ UserSubscribes
    \/ UserCreatesQueue
    \/ UserDispatches
    \/ ProcessStart
    \/ ProcessGet
    \/ CallbackReturns
    \/ CallbackRaises

SpecEvents == InitEvents /\ [][NextEvents]_vars

(***************************************************************************)
(* SpecPoll: the poll_for_messages task as run() creates it (youtube.py:   *)
(* 383-391): the queue exists and is empty, the stream is fetched and      *)
(* page_token is "" (youtube.py:262).  The server answers each request     *)
(* with any response.                                                      *)
(***************************************************************************)
FetchedStream == [id |-> "s1", chat_id |-> "c1"]

InitPoll ==
    /\ InitBus
    /\ hasQueue = TRUE
    /\ stream = FetchedStream
    /\ pollPc = "request"
    /\ page_token = ""
    /\ sleepMs = 0
    /\ polls = <<>>
    /\ InitBot(FALSE, NoFile, "idle", "none", {FALSE})

ServerAnswers ==
    /\ pollPc = "awaiting"
    /\ \E r \in Responses(Len(polls)) : PollResponse(r)

NextPoll ==
    \/ PollRequest
    \/ ServerAnswers
    \/ PollWake

SpecPoll == InitPoll /\ [][NextPoll]_vars

\* youtube.py:393-395  create_task(auto_refresh_tokens(tokens["expires_in"]))
create_refresh_task ==
    /\ refreshPc = "idle"
    /\ "expires_in" \in tokens.keys
    /\ refreshPc' = "created"

(***************************************************************************)
(* YouTubeBot.run and YouTubeBot.close, youtube.py:345-434.  run() drives  *)
(* the loop with run_until_complete: while one of those calls is running,  *)
(* every task on the loop that is ready takes its steps too.               *)
(***************************************************************************)
\* a variant of BroadExceptCatches for a handler that catches everything
BroadExceptCatches_All(exc) == TRUE

\* events.py:156 and youtube.py:289  `except Exception`: CancelledError,
\* KeyboardInterrupt and SystemExit derive from BaseException only
BroadExceptCatches(exc) ==
    exc.type \notin {"CancelledError", "KeyboardInterrupt", "SystemExit"}

CancelledError == Exc("CancelledError", 0, "")

\* where task t is
TaskPc(t) ==
    CASE t = "poll" -> pollPc
      [] t = "process" -> procPc
      [] t = "refresh" -> refreshPc

\* task.done()
Done(t) == TaskPc(t) \in {"returned", "failed", "cancelled"}

\* youtube.py:423  asyncio.all_tasks(loop): the tasks that are not done
all_tasks == {t \in tasks : ~Done(t)}

\* a run_until_complete call of run() or close() is running the loop
LoopRunning == runPc \in {"dispatch_ready", "wait_poll", "close", "cancel_wait"}

\* a variant of MayStep in which the tasks are awaited together, so that the
\* failure of the auto-refresh task stops the others
MayStep_UnlessRefreshFailed(t) ==
    t \in tasks /\ LoopRunning /\ cancelReq # t /\ refreshPc # "failed"

\* task t may take a step of its own: it is on the running loop, and no
\* cancellation is on its way to it
MayStep(t) == t \in tasks /\ LoopRunning /\ cancelReq # t

\* youtube.py:383
RunCreateQueue ==
    /\ runPc = "start"
    /\ hasQueue' = TRUE
    /\ queue' = <<>>
    /\ runPc' = "create_session"
    /\ last' = Step("create_queue", "", <<>>, NoEvent, NoExc)
    /\ UNCHANGED <<callbacks, procPc, procEvent, procIdx, busLogs, pollVars, authVars, callVars,
                   read_only, session, sessionsCreated, sessionsClosed, loopClosed,
                   tasks, pending, cancelReq, cancelledAt, runExc>>

\* youtube.py:384, 178-186, 386
RunCreateSession ==
    /\ runPc = "create_session"
    /\ session' = "open"
    /\ sessionsCreated' = sessionsCreated + 1
    /\ runPc' = IF read_only THEN "fetch_stream" ELSE "authorise"
    /\ last' = Step("create_session", "", <<>>, NoEvent, NoExc)
    /\ UNCHANGED <<busVars, busLogs, pollVars, authVars, callVars, read_only, sessionsClosed,
                   loopClosed, tasks, pending, cancelReq, cancelledAt, runExc>>

\* youtube.py:387, 400-402  authorise(force=force_auth) and how run() goes on
RunAuthorise(force, ans) ==
    /\ runPc = "authorise"
    /\ authorise(force, ans)
    /\ LET out == AuthoriseBody(force, ans, hasSecrets, session, tokens, tokenFile,
                                NoQueue)
       IN /\ runPc' = IF out.exc = NoExc THEN "fetch_stream" ELSE "close"
          /\ runExc' = out.exc
    /\ UNCHANGED <<read_only, session, sessionsCreated, sessionsClosed, loopClosed,
                   tasks, pending, cancelReq, cancelledAt>>

\* youtube.py:389, 188-222  fetch_stream_info: the stream is resolved and a
\* StreamFetchedEvent dispatched, or the resolver raises
RunFetchStream(exc) ==
    /\ runPc = "fetch_stream"
    /\ IF exc = NoExc
       THEN LET event == MkEvent("StreamFetchedEvent", <<FetchedStream>>) IN
            /\ stream' = FetchedStream
            /\ queue' = QueuePut(queue, event)
            /\ dispatched' = Append(dispatched, event)
            /\ runPc' = "create_tasks"
       ELSE /\ runPc' = "close"
            /\ UNCHANGED <<stream, queue, dispatched>>
    /\ runExc' = exc
    /\ last' = Step("fetch_stream_info", "", <<>>, NoEvent, exc)
    /\ UNCHANGED <<hasQueue, callbacks, procPc, procEvent, procIdx, dequeued, invoked,
                   pollPc, page_token, sleepMs, polls, authVars, callVars, read_only, session,
                   sessionsCreated, sessionsClosed, loopClosed, tasks, pending,
                   cancelReq, cancelledAt>>

\* youtube.py:391-395  the three create_task calls; tokens["expires_in"] is
\* read for the third and raises KeyError when the blob has no such key
RunCreateTasks ==
    /\ runPc = "create_tasks"
    /\ pollPc' = "request"
    /\ IF "expires_in" \in tokens.keys
       THEN /\ create_refresh_task
            /\ tasks' = {"poll", "process", "refresh"}
            /\ runPc' = "dispatch_ready"
            /\ runExc' = NoExc
       ELSE /\ tasks' = {"poll", "process"}
            /\ refreshPc' = refreshPc
            /\ runPc' = "close"
            /\ runExc' = Exc("KeyError", 0, "expires_in")
    /\ last' = Step("create_tasks", "", <<>>, NoEvent, runExc')
    /\ UNCHANGED <<busVars, busLogs, stream, page_token, sleepMs, polls, hasSecrets,
                   tokens, tokenFile, tokenOps, refreshLog, read_only, session,
                   sessionsCreated, sessionsClosed, loopClosed, pending, cancelReq,
                   cancelledAt, callVars>>

\* youtube.py:397  run_until_complete(dispatch(ReadyEvent))
RunDispatchReady ==
    /\ runPc = "dispatch_ready"
    /\ LET event == MkEvent("ReadyEvent", <<>>) IN
       /\ queue' = QueuePut(queue, event)
       /\ dispatched' = Append(dispatched, event)
       /\ last' = Step("dispatch", "ReadyEvent", <<>>, event, NoExc)
    /\ runPc' = "wait_poll"
    /\ UNCHANGED <<hasQueue, callbacks, procPc, procEvent, procIdx, dequeued, invoked,
                   pollVars, authVars, callVars, read_only, session, sessionsCreated,
                   sessionsClosed, loopClosed, tasks, pending, cancelReq, cancelledAt,
                   runExc>>

\* youtube.py:398, 407-408  the poll task is done: run_until_complete(task)
\* returns and the finally clause calls close()
RunPollReturned ==
    /\ runPc = "wait_poll"
    /\ pollPc = "returned"
    /\ runPc' = "close"
    /\ last' = Step("run", "", <<>>, NoEvent, NoExc)
    /\ UNCHANGED <<busVars, busLogs, pollVars, authVars, callVars, read_only, session,
                   sessionsCreated, sessionsClosed, loopClosed, tasks, pending,
                   cancelReq, cancelledAt, runExc>>

\* youtube.py:404-408  KeyboardInterrupt reaches run() while the loop runs a
\* startup coroutine or the tasks: it is swallowed and close() is called
RunInterrupt ==
    /\ runPc \in {"authorise", "fetch_stream", "dispatch_ready", "wait_poll"}
    /\ runPc' = "close"
    /\ last' = Step("run", "", <<>>, NoEvent, Exc("KeyboardInterrupt", 0, ""))
    /\ UNCHANGED <<busVars, busLogs, pollVars, authVars, callVars, read_only, session,
                   sessionsCreated, sessionsClosed, loopClosed, tasks, pending,
                   cancelReq, cancelledAt, runExc>>

\* a variant of SessionAfterClose that leaves the session open
SessionAfterClose_Open(sess) == sess

\* youtube.py:419-421  `if self.session: run_until_complete(session.close())`
SessionAfterClose(sess) == IF sess = "none" THEN "none" ELSE "closed"

\* youtube.py:419-423  close(): the session is closed, then `pending` is
\* taken from the loop
RunCloseSession ==
    /\ runPc = "close"
    /\ session' = SessionAfterClose(session)
    /\ sessionsClosed' = IF session = "none" THEN sessionsClosed ELSE sessionsClosed + 1
    /\ pending' = all_tasks
    /\ runPc' = "cancel"
    /\ last' = Step("close_session", "", <<>>, NoEvent, NoExc)
    /\ UNCHANGED <<busVars, busLogs, pollVars, authVars, callVars, read_only, sessionsCreated,
                   loopClosed, tasks, cancelReq, cancelledAt, runExc>>

\* youtube.py:424-430  the for loop visits task t: cancel() and
\* run_until_complete(task).  A task that is done already cannot be
\* cancelled: run_until_complete returns at once, or raises the exception
\* the task ended with, which `except asyncio.CancelledError` lets through
RunCancel(t) ==
    /\ runPc = "cancel"
    /\ t \in pending
    /\ pending' = pending \ {t}
    /\ IF ~Done(t)
       THEN /\ cancelReq' = t
            /\ runPc' = "cancel_wait"
            /\ runExc' = runExc
       ELSE /\ cancelReq' = cancelReq
            /\ runPc' = IF TaskPc(t) = "failed" THEN "close_raised" ELSE "cancel"
            /\ runExc' = IF TaskPc(t) = "failed" THEN Exc("Exception", 0, t)
                         ELSE runExc
    /\ last' = Step("cancel", t, <<>>, NoEvent, NoExc)
    /\ UNCHANGED <<busVars, busLogs, pollVars, authVars, callVars, read_only, session,
                   sessionsCreated, sessionsClosed, loopClosed, tasks, cancelledAt>>

\* youtube.py:432-434  every task of `pending` was visited: the loop is closed
RunCloseLoop ==
    /\ runPc = "cancel"
    /\ pending = {}
    /\ loopClosed' = TRUE
    /\ runPc' = "done"
    /\ last' = Step("close_loop", "", <<>>, NoEvent, NoExc)
    /\ UNCHANGED <<busVars, busLogs, pollVars, authVars, callVars, read_only, session,
                   sessionsCreated, sessionsClosed, tasks, pending, cancelReq,
                   cancelledAt, runExc>>

\* CancelledError is thrown into the poll task where it is suspended: in the
\* try block (youtube.py:273, 287) the handler of youtube.py:289 decides, in
\* the sleep of the except clause (youtube.py:297) or before the first step
\* nothing can catch it
PollCancelled ==
    /\ cancelReq = "poll"
    /\ ~Done("poll")
    /\ LET inTry == \/ pollPc = "awaiting"
                    \/ pollPc = "sleeping" /\ polls[Len(polls)].exc = NoExc
           caught == inTry /\ BroadExceptCatches(CancelledError)
           end == ExceptClause([exc |-> CancelledError])
       IN /\ pollPc' = IF caught THEN end.pc ELSE "cancelled"
          /\ sleepMs' = IF caught THEN end.ms ELSE 0
          /\ runPc' = IF caught THEN runPc ELSE "cancel"
    /\ cancelReq' = "none"
    /\ cancelledAt' = cancelledAt @@ ("poll" :> pollPc)
    /\ last' = Step("cancelled", "poll", <<>>, NoEvent, CancelledError)
    /\ UNCHANGED <<busVars, busLogs, stream, page_token, polls, authVars, callVars, read_only,
                   session, sessionsCreated, sessionsClosed, loopClosed, tasks,
                   pending, runExc>>

\* CancelledError is thrown into the process task where it is suspended: in
\* queue.get() or in the awaited callback (events.py:150, 154) the handler of
\* events.py:156 decides; before the first step nothing can catch it
ProcessCancelled ==
    /\ cancelReq = "process"
    /\ ~Done("process")
    /\ LET caught == procPc \in {"get", "cb"} /\ BroadExceptCatches(CancelledError)
       IN /\ procPc' = IF caught THEN AfterExcept ELSE "cancelled"
          /\ runPc' = IF caught THEN runPc ELSE "cancel"
    /\ procIdx' = 0
    /\ invoked' = IF procPc = "cb" THEN Finish(invoked, "cancelled") ELSE invoked
    /\ cancelReq' = "none"
    /\ cancelledAt' = cancelledAt @@ ("process" :> procPc)
    /\ last' = Step("cancelled", "process", <<>>, NoEvent, CancelledError)
    /\ UNCHANGED <<hasQueue, queue, callbacks, procEvent, dispatched, dequeued,
                   pollVars, authVars, callVars, read_only, session, sessionsCreated,
                   sessionsClosed, loopClosed, tasks, pending, runExc>>

\* CancelledError is thrown into the auto_refresh_tokens task: it has no
\* handler at all (oauth.py:186-196)
RefreshCancelled ==
    /\ cancelReq = "refresh"
    /\ ~Done("refresh")
    /\ refreshPc' = "cancelled"
    /\ runPc' = "cancel"
    /\ cancelReq' = "none"
    /\ cancelledAt' = cancelledAt @@ ("refresh" :> refreshPc)
    /\ last' = Step("cancelled", "refresh", <<>>, NoEvent, CancelledError)
    /\ UNCHANGED <<busVars, busLogs, pollVars, hasSecrets, tokens, tokenFile, tokenOps,
                   refreshLog, read_only, session, sessionsCreated, sessionsClosed,
                   loopClosed, tasks, pending, runExc, callVars>>

(***************************************************************************)
(* SpecAuth: the token side of run() with read_only=False, from the point  *)
(* where the queue and the session exist (youtube.py:383-387): authorise   *)
(* with any argument and any answers of the servers, then the              *)
(* auto_refresh_tokens task.  The stream and the poll loop are left out.   *)
(***************************************************************************)
InitAuth ==
    /\ InitBus
    /\ hasQueue = TRUE
    /\ stream = NoStream
    /\ pollPc = "idle"
    /\ page_token = ""
    /\ sleepMs = 0
    /\ polls = <<>>
    /\ \E s \in BOOLEAN, f \in {NoFile, File(StoredBlob), File(EmptyBlob)} :
           InitBot(s, f, "authorise", "open", {FALSE})

AuthAuthorises ==
    \E force \in BOOLEAN, intro \in Introspections, refresh \in RefreshAnswers,
       exchange \in ExchangeAnswers :
        RunAuthorise(force, Answers(intro, refresh, exchange))

\* youtube.py:393-395 on its own
AuthCreatesRefreshTask ==
    /\ runPc = "fetch_stream"
    /\ create_refresh_task
    /\ tasks' = {"refresh"}
    /\ runPc' = "wait_poll"
    /\ last' = Step("create_tasks", "", <<>>, NoEvent, NoExc)
    /\ UNCHANGED <<busVars, busLogs, pollVars, hasSecrets, tokens, tokenFile, tokenOps,
                   refreshLog, read_only, session, sessionsCreated, sessionsClosed,
                   loopClosed, pending, cancelReq, cancelledAt, runExc, callVars>>

ServerAnswersRefresh == \E answer \in RefreshAnswers : RefreshAnswer(answer)

NextAuth ==
    \/ AuthAuthorises
    \/ AuthCreatesRefreshTask
    \/ RefreshStart
    \/ RefreshWake
    \/ ServerAnswersRefresh

SpecAuth == InitAuth /\ [][NextAuth]_vars

(***************************************************************************)
(* SpecRun: one call of run() on a new bot, from the first line to the end *)
(* of close().  User code has subscribed at most one callback; there is no *)
(* token file, so authorise goes through the interactive exchange.         *)
(***************************************************************************)
InitRun ==
    /\ InitBus
    /\ hasQueue = FALSE
    /\ stream = NoStream
    /\ pollPc = "idle"
    /\ page_token = ""
    /\ sleepMs = 0
    /\ polls = <<>>
    /\ \E s \in BOOLEAN : InitBot(s, NoFile, "start", "none", BOOLEAN)

\* the answers of the messages endpoint in SpecRun
RunResponses(n) ==
    {Response("ok", <<CHOOSE i \in Items : i.id = "i1">>, PageTokens[n], 1000, 0),
     Response("error", <<>>, "", 0, 403),
     Response("fail", <<>>, "", 0, 0)}

\* errors.py:55-57, raised by the stream resolver
ChannelNotLive == Exc("ChannelNotLive", 0, "the provided channel is not live")

RunUserSubscribes ==
    /\ runPc = "start"
    /\ callbacks = <<>>
    /\ subscribe("ReadyEvent", <<"cb1">>)

RunAuthorises ==
    \E exchange \in ExchangeAnswers :
        RunAuthorise(FALSE, Answers(NoAnswers.intro, "none", exchange))

RunFetchesStream ==
    \E exc \in {NoExc, HTTPError(403, "message"), ChannelNotLive} : RunFetchStream(exc)

RunCancels == \E t \in pending : RunCancel(t)

RunPollRequests == MayStep("poll") /\ Len(polls) < MaxRunPolls /\ PollRequest

\* a variant of AwaitsReady in which answers arrive while run() waits for the
\* dispatch of the ReadyEvent
AwaitsReady_Never == FALSE

\* youtube.py:397  run_until_complete(dispatch(ReadyEvent)) runs the loop for
\* one pass over the callbacks that are ready: each task created at 391-395
\* takes its first step, up to the await on which it is suspended, and then
\* the dispatch puts its event.  No answer to a request arrives in that pass.
AwaitsReady == runPc = "dispatch_ready"

\* a request made on a closed session raises
RunPollAnswered ==
    /\ MayStep("poll")
    /\ ~AwaitsReady
    /\ pollPc = "awaiting"
    /\ \E r \in RunResponses(Len(polls)) :
           /\ session # "open" => r.kind = "fail"
           /\ PollResponse(r)

RunPollWakes == MayStep("poll") /\ PollWake

RunProcessStarts == MayStep("process") /\ ProcessStart

RunProcessGets == MayStep("process") /\ ProcessGet

RunCallbackReturns == MayStep("process") /\ CallbackReturns

RunCallbackRaises == MayStep("process") /\ CallbackRaises

RunRefreshStarts == MayStep("refresh") /\ RefreshStart

RunRefreshWakes == MayStep("refresh") /\ Attempts < MaxRunRefreshes /\ RefreshWake

RunRefreshAnswered ==
    /\ MayStep("refresh")
    /\ ~AwaitsReady
    /\ \E answer \in RefreshAnswers :
           /\ session # "open" => answer = "fail"
           /\ RefreshAnswer(answer)

NextRun ==
    \/ RunUserSubscribes
    \/ RunCreateQueue
    \/ RunCreateSession
    \/ RunAuthorises
    \/ RunFetchesStream
    \/ RunCreateTasks
    \/ RunDispatchReady
    \/ RunPollReturned
    \/ RunInterrupt
    \/ RunCloseSession
    \/ RunCancels
    \/ RunCloseLoop
    \/ RunPollRequests
    \/ RunPollAnswered
    \/ RunPollWakes
    \/ RunProcessStarts
    \/ RunProcessGets
    \/ RunCallbackReturns
    \/ RunCallbackRaises
    \/ RunRefreshStarts
    \/ RunRefreshWakes
    \/ RunRefreshAnswered
    \/ PollCancelled
    \/ ProcessCancelled
    \/ RefreshCancelled

SpecRun == InitRun /\ [][NextRun]_vars

(***************************************************************************)
(* Properties of the poll loop, checked under SpecPoll.                    *)
(***************************************************************************)
\* the events dispatched during poll iteration p
EventsOf(p) == SubSeq(dispatched, p.from + 1, p.to)

\* the iteration of record p is over: its request was answered
Answered(p) == p.resp.kind # "none"

\* the MessageCreatedEvent a page item stands for
Created(item) ==
    MkEvent("MessageCreatedEvent", <<[id |-> item.id, stream |-> stream]>>)

\* C1: an iteration whose request carried the empty page_token and was
\* answered with a page, whatever the number of its items, dispatches exactly
\* one event, the ChatPolledEvent holding the page, and no MessageCreatedEvent.
C1_FirstPageSuppressed ==
    \A i \in DOMAIN polls :
        LET p == polls[i] IN
        (p.token = "" /\ p.resp.kind = "ok") =>
            /\ EventsOf(p) = <<MkEvent("ChatPolledEvent", <<p.resp>>)>>
            /\ p.exc = NoExc
            /\ IF i < Len(polls) THEN polls[i + 1].from = p.to
               ELSE Len(dispatched) = p.to

\* a first page with MaxItems items was answered while page_token was empty,
\* after an earlier attempt had failed
C1_Witness ==
    \E i \in DOMAIN polls :
        /\ i > 1
        /\ polls[i].token = ""
        /\ polls[i].resp.kind = "ok"
        /\ Len(polls[i].resp.items) = MaxItems

\* C2: an iteration whose request carried a non-empty page_token and that
\* succeeded on a page of n items dispatches n + 1 events: the ChatPolledEvent
\* first, then one MessageCreatedEvent per item in page order; all of them are
\* in the queue, in that order, by the time the next request is issued (no
\* consumer runs in SpecPoll, so the queue holds every event dispatched).
C2_MessagesInPageOrder ==
    \A i \in DOMAIN polls :
        LET p == polls[i]
            n == Len(p.resp.items)
        IN (p.token # "" /\ p.resp.kind = "ok" /\ p.exc = NoExc) =>
            /\ Len(EventsOf(p)) = n + 1
            /\ EventsOf(p)[1] = MkEvent("ChatPolledEvent", <<p.resp>>)
            /\ \A k \in 1..n : EventsOf(p)[k + 1] = Created(p.resp.items[k])
            /\ IF i < Len(polls) THEN polls[i + 1].from = p.to
               ELSE Len(dispatched) = p.to
            /\ queue = dispatched

\* a page of two items was dispatched on a non-empty cursor and the next
\* request has been issued
C2_Witness ==
    \E i \in DOMAIN polls :
        /\ i < Len(polls)
        /\ polls[i].token # ""
        /\ polls[i].exc = NoExc
        /\ Len(polls[i].resp.items) = 2
        /\ polls[i].to = polls[i].from + 3

\* C3: an HTTPError with a code in 400..499 ends poll_for_messages: that
\* iteration is the last, nothing is dispatched in it or after it, no sleep
\* is started and no step of the loop is enabled any more; an HTTPError with
\* any other code (399, 500) does not end it.
C3_ClientErrorTerminates ==
    /\ \A i \in DOMAIN polls :
           LET p == polls[i] IN
           p.exc.type = "HTTPError" =>
               IF 400 <= p.exc.code /\ p.exc.code <= 499
               THEN /\ i = Len(polls)
                    /\ pollPc = "returned"
                    /\ ~p.slept
                    /\ sleepMs = 0
                    /\ p.to = p.from
                    /\ Len(dispatched) = p.to
                    /\ ~ENABLED NextPoll
               ELSE /\ p.slept
                    /\ i = Len(polls) => pollPc \in {"sleeping", "request"}
    /\ pollPc = "returned" =>
           /\ polls # <<>>
           /\ polls[Len(polls)].exc.type = "HTTPError"
           /\ polls[Len(polls)].exc.code \in 400..499

\* the loop has returned on a 400 and on a 499, and has gone on after a 399
\* and after a 500
C3_Witness ==
    /\ pollPc = "returned"
    /\ polls[Len(polls)].exc.code \in {400, 499}
    /\ \E i \in DOMAIN polls : polls[i].exc = HTTPError(399, "message")
    /\ \E i \in DOMAIN polls : polls[i].exc = HTTPError(500, "message")

\* C4: an iteration that fails with anything but a 4xx HTTPError starts a
\* sleep of 5 seconds and leaves page_token as it was when the request was
\* sent; the next request carries that same page_token.
C4_RetryKeepsCursor ==
    \A i \in DOMAIN polls :
        LET p == polls[i] IN
        (/\ Answered(p)
         /\ p.exc # NoExc
         /\ ~(p.exc.type = "HTTPError" /\ p.exc.code \in 400..499)) =>
            /\ p.slept
            /\ p.ms = 5000
            /\ p.after = p.token
            /\ IF i < Len(polls) THEN polls[i + 1].token = p.token
               ELSE /\ page_token = p.token
                    /\ pollPc = "sleeping" => sleepMs = 5000
                    /\ pollPc \in {"sleeping", "request"}

\* an iteration on a non-empty cursor failed part-way through its page, whose
\* nextPageToken was another cursor, and the next request has been issued;
\* another iteration failed with a 500
C4_Witness ==
    /\ \E i \in DOMAIN polls :
           /\ i < Len(polls)
           /\ polls[i].token # ""
           /\ polls[i].exc.type = "KeyError"
           /\ polls[i].to > polls[i].from + 1
           /\ polls[i].resp.nextPageToken # polls[i].token
    /\ \E i \in DOMAIN polls : polls[i].exc = HTTPError(500, "message")

(***************************************************************************)
(* Properties of the EventHandler, checked under SpecEvents.               *)
(***************************************************************************)
\* the events process() has taken from the queue, oldest first
DequeuedEvents == [k \in DOMAIN dequeued |-> dequeued[k].event]

\* the callback invocations made for the k-th dequeued event, oldest first
CallsFor(k) == SelectSeq(invoked, LAMBDA c : c.ev = k)

\* process() is done with the k-th dequeued event
Finished(k) == k < Len(dequeued) \/ (k = Len(dequeued) /\ procPc # "cb")

\* a callback raised while handling the k-th dequeued event
RaisedIn(k) == \E i \in DOMAIN invoked : invoked[i].ev = k /\ invoked[i].st = "raised"

\* C5: process() takes the events in the order their dispatch calls
\* completed (the events dispatched are those taken followed by those still
\* queued), every callback is called with the event taken last, and all
\* invocations for an event come before any invocation for a later event.
C5_FifoDelivery ==
    /\ hasQueue => dispatched = DequeuedEvents \o queue
    /\ ~hasQueue => dispatched = <<>> /\ dequeued = <<>>
    /\ \A i \in DOMAIN invoked :
           /\ invoked[i].ev \in DOMAIN dequeued
           /\ invoked[i].arg = dispatched[invoked[i].ev]
           /\ \A j \in DOMAIN invoked : i < j => invoked[i].ev <= invoked[j].ev

\* two different events were dispatched, and callbacks ran for the first and
\* then for the second
C5_Witness ==
    /\ Len(dequeued) = 2
    /\ dispatched[1] # dispatched[2]
    /\ CallsFor(1) # <<>>
    /\ CallsFor(2) # <<>>

\* C6: once a callback has raised, process() is still running, every event
\* dispatched is either dequeued or still in the queue, process() can take
\* the next event as soon as there is one, and every event dequeued later is
\* handed to its callbacks like any other: its first callback is invoked, and
\* when none of its own callbacks raises all of them are, in order.
C6_RaiseSwallowed ==
    (\E i \in DOMAIN invoked : invoked[i].st = "raised") =>
        /\ procPc \in {"get", "cb"}
        /\ dispatched = DequeuedEvents \o queue
        /\ (procPc = "get" /\ queue # <<>>) => ENABLED ProcessGet
        /\ \A k, m \in DOMAIN dequeued :
               (RaisedIn(k) /\ k < m) =>
                   LET subs == dequeued[m].subscribed
                       calls == CallsFor(m)
                   IN /\ subs # <<>> => (calls # <<>> /\ calls[1].cb = subs[1])
                      /\ (Finished(m) /\ ~RaisedIn(m)) =>
                             /\ Len(calls) >= Len(subs)
                             /\ \A j \in DOMAIN subs :
                                    calls[j].cb = subs[j] /\ calls[j].st = "returned"

\* a callback raised for the first event, and the second event, dispatched
\* before that, was then delivered to its callbacks
C6_Witness ==
    /\ Len(dequeued) = 2
    /\ RaisedIn(1)
    /\ Finished(2)
    /\ CallsFor(2) # <<>>
    /\ ~RaisedIn(2)

\* C7: when a callback raises for an event, every other callback subscribed
\* to the event's type when it was dequeued, also one registered after the
\* raising one, is still invoked for that event.
C7_OtherCallbacksStillInvoked ==
    \A k \in DOMAIN dequeued :
        \A r \in DOMAIN invoked :
            (Finished(k) /\ invoked[r].ev = k /\ invoked[r].st = "raised") =>
                \A j \in DOMAIN dequeued[k].subscribed :
                    dequeued[k].subscribed[j] # invoked[r].cb =>
                        \E i \in DOMAIN invoked :
                            /\ invoked[i].ev = k
                            /\ invoked[i].idx = j
                            /\ invoked[i].cb = dequeued[k].subscribed[j]

\* C8: the callbacks subscribed to the type of a dequeued event are invoked
\* in subscription order, one at a time, and the next event is not dequeued
\* before the last of them has completed.
C8_InOrderBeforeNextEvent ==
    \A k \in DOMAIN dequeued :
        LET subs == dequeued[k].subscribed
            calls == CallsFor(k)
        IN /\ \A j \in DOMAIN calls :
                  /\ calls[j].idx = j
                  /\ j <= Len(subs) => calls[j].cb = subs[j]
                  /\ calls[j].st = "running" =>
                         j = Len(calls) /\ k = Len(dequeued) /\ procPc = "cb"
           /\ k < Len(dequeued) =>
                  \A j \in DOMAIN subs :
                      j <= Len(calls) /\ calls[j].st # "running"

\* the part of C8 that the code keeps: in subscription order, one at a time,
\* and no event is dequeued while a callback runs
C8_InOrderOneAtATime ==
    \A k \in DOMAIN dequeued :
        LET subs == dequeued[k].subscribed
            calls == CallsFor(k)
        IN /\ \A j \in DOMAIN calls :
                  /\ calls[j].idx = j
                  /\ j <= Len(subs) => calls[j].cb = subs[j]
                  /\ calls[j].st = "running" =>
                         j = Len(calls) /\ k = Len(dequeued) /\ procPc = "cb"
           /\ (k < Len(dequeued) /\ ~RaisedIn(k)) =>
                  \A j \in DOMAIN subs :
                      j <= Len(calls) /\ calls[j].st = "returned"

\* C9: on a handler without a queue, dispatch and process raise
\* NoEventQueue('there is no event queue'); no event is built or enqueued, no
\* callback is invoked, and the queue stays absent and the callbacks table as
\* it was.
C9_NoQueueNoEffect ==
    [][(~hasQueue /\ last'.op \in {"dispatch", "process"}) =>
           /\ last'.exc = [type |-> "NoEventQueue", code |-> 0,
                           msg |-> "there is no event queue"]
           /\ last'.ret = NoEvent
           /\ ~hasQueue'
           /\ UNCHANGED <<queue, callbacks, dispatched, dequeued, invoked>>
           /\ procPc' = IF last'.op = "process" THEN "failed" ELSE procPc]_vars

\* with callbacks subscribed and no queue, process() has failed and then a
\* dispatch has failed
C9_Witness ==
    /\ ~hasQueue
    /\ Subscribed > 0
    /\ procPc = "failed"
    /\ last.op = "dispatch"
    /\ last.exc = NoEventQueue

\* C10: on a handler with a queue, dispatch(event_type, *args) does not fail,
\* returns the event event_type(*args) and leaves the queue as it was with
\* that event added at the tail, so queue_size grows by exactly 1; queue_size
\* is 0 until the first dispatch.
C10_DispatchAppendsOne ==
    /\ [](dispatched = <<>> => queue_size = 0)
    /\ [][(hasQueue /\ last'.op = "dispatch") =>
              /\ last'.exc = NoExc
              /\ last'.ret = [type |-> last'.type, args |-> last'.args]
              /\ queue' = Append(queue, last'.ret)
              /\ queue_size' = queue_size + 1]_vars

\* a dispatch has returned its event with MaxEvents - 1 events already
\* pending, and the queue now holds MaxEvents events
C10_Witness ==
    /\ last.op = "dispatch"
    /\ last.exc = NoExc
    /\ Len(queue) = MaxEvents
    /\ queue[Len(queue)] = last.ret
    /\ queue_size = MaxEvents

(***************************************************************************)
(* SpecRecreate: SpecEvents with user code that calls create_queue again   *)
(* while a queue exists.                                                   *)
(***************************************************************************)
UserCreatesQueueAgain == hasQueue /\ create_queue

NextRecreate ==
    \/ NextEvents
    \/ UserCreatesQueueAgain

SpecRecreate == InitEvents /\ [][NextRecreate]_vars

\* C11: a create_queue call made while a queue exists does not raise and
\* leaves the queue and the events pending in it as they are.
C11_CreateQueueIdempotent ==
    [][(hasQueue /\ last'.op = "create_queue")
          => /\ last'.exc = NoExc
             /\ hasQueue'
             /\ queue' = queue]_vars

(***************************************************************************)
(* Properties of run() and close(), checked under SpecRun.                 *)
(***************************************************************************)
\* C12: once CancelledError has been thrown into the poll task or the
\* process task, wherever it was suspended (request in flight, either sleep,
\* queue.get, an awaited callback), the task is over, cancelled: no handler of
\* the task caught the exception and the task is at no point of its loop.
C12_CancellationEndsTask ==
    /\ [](\A t \in DOMAIN cancelledAt \cap {"poll", "process"} :
            /\ TaskPc(t) = "cancelled"
            /\ t = "process" /\ cancelledAt[t] = "cb"
                   => invoked[Len(invoked)].st = "cancelled")
    /\ [][/\ "poll" \in DOMAIN cancelledAt => UNCHANGED pollVars
          /\ "process" \in DOMAIN cancelledAt
                 => UNCHANGED <<procPc, procEvent, procIdx, dequeued, invoked>>]_vars

\* the poll task was cancelled with its request in flight and the process
\* task inside an awaited callback
C12_Witness ==
    /\ DOMAIN cancelledAt = {"poll", "process", "refresh"}
    /\ cancelledAt["poll"] = "awaiting"
    /\ cancelledAt["process"] = "cb"
    /\ pollPc = "cancelled"
    /\ procPc = "cancelled"

\* C13: while the session is closed no task of the bot is pending (all of
\* them were cancelled and have finished before the session was closed), and
\* no task takes a step in a state where the session is closed.
C13_TasksEndBeforeSessionCloses ==
    /\ [](session = "closed" => all_tasks = {})
    /\ [][session = "closed" => UNCHANGED <<pollPc, procPc, refreshPc>>]_vars

\* run() has ended: close() returned, or an exception left close()
RunEnded == runPc \in {"done", "close_raised"}

\* C14: when run() has ended, whichever way it left its try block, close()
\* has done all of its work: no task of the bot is pending, the session is
\* closed and the event loop is closed.
C14_CloseCompletesOnEveryExit ==
    RunEnded =>
        /\ all_tasks = {}
        /\ session # "open"
        /\ loopClosed

\* a request was made: by authorise, the stream resolver, the poll loop or
\* the auto-refresh task
RequestMade ==
    \/ \E i \in DOMAIN tokenOps : tokenOps[i].ops # <<>>
    \/ last.op = "fetch_stream_info"
    \/ stream # NoStream
    \/ polls # <<>>
    \/ Attempts > 0

Performed(ops, o) == \E j \in DOMAIN ops : ops[j] = o

\* token operation op sent a refresh POST and the answer was not a success
RefreshFailed(op) == Performed(op.ops, "refresh") /\ op.ans.refresh = "notok"

\* C16: a token operation, in authorise or in the auto-refresh task, whose
\* refresh POST did not succeed goes on to the interactive exchange, and when
\* the operation completes the bot holds the exchanged blob, not an empty one.
C16_FailedRefreshFallsBack ==
    \A i \in DOMAIN tokenOps :
        RefreshFailed(tokenOps[i]) =>
            /\ Performed(tokenOps[i].ops, "exchange")
            /\ tokenOps[i].exc = NoExc =>
                   /\ Truthy(tokenOps[i].tokens)
                   /\ tokenOps[i].tokens = ExchangedBlob

\* token operation op obtained a new blob: the exchange succeeded, or the
\* refresh POST was answered with a success
Acquired(op) ==
    \/ Performed(op.ops, "exchange") /\ op.ans.exchange = "ok"
    \/ Performed(op.ops, "refresh") /\ op.ans.refresh = "ok"

\* C17: a token operation that obtained a new blob, by the exchange or by a
\* refresh in authorise or in the auto-refresh task, ends with the file
\* write followed by the dispatch, which are its last two operations and
\* happen once each; it dispatched exactly one event, the AuthorisedEvent
\* carrying the new blob, and the blob in the token file equals the blob in
\* memory, which holds all keys.  The token file and the blob in memory agree
\* after every completed operation.
C17_AcquiredTokensPersistedAndAnnounced ==
    /\ \A i \in DOMAIN tokenOps :
           LET op == tokenOps[i] IN
           Acquired(op) =>
               /\ op.exc = NoExc
               /\ Len(op.ops) >= 3
               /\ SubSeq(op.ops, Len(op.ops) - 1, Len(op.ops)) = <<"write", "dispatch">>
               /\ \A j \in 1..(Len(op.ops) - 2) : op.ops[j] \notin {"write", "dispatch"}
               /\ op.stored = File(op.tokens)
               /\ op.tokens.keys = AllKeys
               /\ op.to = op.from + 1
               /\ dispatched[op.to] = MkEvent("AuthorisedEvent", <<SecretsObj, op.tokens>>)
    /\ tokenOps # <<>> /\ tokenOps[Len(tokenOps)].exc = NoExc
           => tokenFile = File(tokens)

\* the exchange, a refresh inside authorise and a refresh of the auto-refresh
\* task have each obtained a blob
C17_Witness ==
    /\ Len(tokenOps) = 3
    /\ tokenOps[1].by = "authorise" /\ tokenOps[1].ops[3] = "refresh"
    /\ Acquired(tokenOps[1])
    /\ tokenOps[2].by = "auto_refresh" /\ Acquired(tokenOps[2])
    /\ tokenOps[3].by = "auto_refresh" /\ Acquired(tokenOps[3])
    /\ tokens.access_token = "refreshed"
    /\ tokenFile = File(tokens)

\* C18: the auto-refresh task never ends by itself (shutdown, which cancels
\* it, is not part of SpecAuth); its history is the sleep of initial_delay
\* followed by refresh attempts and sleeps in alternation, every later sleep
\* being the one-hour sleep; and every cycle it has completed refreshed,
\* wrote the file and dispatched the AuthorisedEvent.
C18_AutoRefreshRunsForever ==
    /\ refreshPc \in {"idle", "created", "sleeping", "posting"}
    /\ \A i \in DOMAIN refreshLog :
           /\ refreshLog[i].op = (IF i % 2 = 1 THEN "sleep" ELSE "refresh")
           /\ (refreshLog[i].op = "sleep" /\ i > 1) => refreshLog[i].s = RefreshPeriodS
    /\ \A i \in DOMAIN tokenOps :
           tokenOps[i].by = "auto_refresh" =>
               /\ tokenOps[i].ops = <<"refresh", "write", "dispatch">>
               /\ tokenOps[i].exc = NoExc

\* the authorise call of record op got past its two checks (oauth.py:114-118)
Admitted(op) == op.by = "authorise" /\ op.exc.type \notin {"NoSecrets", "NoSession"}

\* C19: an authorise(force=True) call on a bot with secrets and a session,
\* with or without a token file, performs the interactive exchange as its
\* first operation and never loads, introspects or refreshes; when the
\* exchange succeeds the call completes and the exchanged blob is the bot's
\* tokens, and when it does not, the call raises and nothing changed.
C19_ForceAlwaysExchanges ==
    \A i \in DOMAIN tokenOps :
        LET op == tokenOps[i] IN
        (Admitted(op) /\ op.force) =>
            /\ op.ops # <<>> /\ op.ops[1] = "exchange"
            /\ \A o \in {"load", "introspect", "refresh"} : ~Performed(op.ops, o)
            /\ IF op.ans.exchange = "ok"
               THEN /\ op.exc = NoExc
                    /\ op.ops = <<"exchange", "write", "dispatch">>
                    /\ op.tokens = ExchangedBlob
               ELSE /\ op.exc # NoExc
                    /\ op.ops = <<"exchange">>
                    /\ op.stored = op.file

\* authorise(force=True) next to a token file whose token is still valid
\* exchanged anyway, and the bot holds the exchanged blob
C19_Witness ==
    /\ Len(tokenOps) = 1
    /\ tokenOps[1].by = "authorise"
    /\ tokenOps[1].force
    /\ tokenOps[1].file = File(StoredBlob)
    /\ tokenOps[1].ans.exchange = "ok"
    /\ tokens = ExchangedBlob
    /\ tokenFile = File(ExchangedBlob)

\* the blob _refresh_tokens returns on success for the loaded blob
Refreshed(loaded) ==
    Blob(AllKeys, RefreshData.access_token, loaded.refresh_token, RefreshData.expires_in)

\* C20: an authorise(force=False) call that finds a token file and gets
\* expires_in from the tokeninfo endpoint: with a negative value it loads,
\* introspects and refreshes, and when the refresh POST succeeds the refreshed
\* blob (with the refresh_token of the file) is the bot's tokens and is in the
\* file; with a value >= 0 it neither refreshes nor exchanges, and the loaded
\* blob with expires_in set to the introspected value is the bot's tokens.
C20_NoForceWithFile ==
    \A i \in DOMAIN tokenOps :
        LET op == tokenOps[i]
            loaded == op.file.content
            e == op.ans.intro.expires_in
        IN (/\ Admitted(op) /\ ~op.force /\ op.file.is_file
            /\ "access_token" \in loaded.keys /\ op.ans.intro.kind = "ok") =>
               IF e < 0
               THEN /\ Len(op.ops) >= 3
                    /\ SubSeq(op.ops, 1, 3) = <<"load", "introspect", "refresh">>
                    /\ op.ans.refresh = "ok" =>
                           /\ op.exc = NoExc
                           /\ op.ops = <<"load", "introspect", "refresh", "write", "dispatch">>
                           /\ op.tokens = Refreshed(loaded)
                           /\ op.stored = File(Refreshed(loaded))
               ELSE /\ op.exc = NoExc
                    /\ op.ops = <<"load", "introspect", "write", "dispatch">>
                    /\ op.tokens = [loaded EXCEPT !.expires_in = e]
                    /\ op.tokens.keys = loaded.keys

\* authorise(force=False) found a token file whose token had expired, the
\* refresh succeeded and the bot holds the refreshed blob
C20_Witness ==
    /\ Len(tokenOps) = 1
    /\ ~tokenOps[1].force
    /\ tokenOps[1].file = File(StoredBlob)
    /\ tokenOps[1].ans.intro = [kind |-> "ok", expires_in |-> -1]
    /\ tokenOps[1].ans.refresh = "ok"
    /\ tokens = Refreshed(StoredBlob)
    /\ tokenFile = File(tokens)
    /\ tokens.refresh_token = StoredBlob.refresh_token

(***************************************************************************)
(* YouTubeBot.send_message, chatto/youtube.py:299-343.                     *)
(***************************************************************************)
\* the message texts user code sends
Contents == {"hello", "bye"}

\* youtube.py:147-150  the access_token property: tokens.get("access_token")
access_token(toks) ==
    IF "access_token" \in toks.keys THEN toks.access_token ELSE "None"

\* youtube.py:314-333  the POST request as it is sent
Post(token, chat_id, content) ==
    [method |-> "POST", url |-> "/liveChat/messages",
     authorization |-> <<"Bearer", token>>, liveChatId |-> chat_id,
     messageText |-> content]

NoItem == [id |-> "", complete |-> FALSE]

\* what the insert endpoint answers: kind "ok" is the liveChatMessage resource
\* it created, with the parts id, snippet and authorDetails the URL asks for;
\* kind "error" is a body with an error object; kind "fail" a request that
\* raises
SendAnswer(kind, item, code) == [kind |-> kind, item |-> item, code |-> code]

SendAnswers ==
    {SendAnswer("ok", i, 0) : i \in {j \in Items : j.complete}}
    \cup {SendAnswer("error", NoItem, c) : c \in ErrorCodes}
    \cup {SendAnswer("fail", NoItem, 0)}

NoAnswer == SendAnswer("none", NoItem, 0)

NoMessage == [id |-> "", stream |-> [id |-> "", chat_id |-> ""]]

\* a record of `sends`: the text, the bot's tokens when the call was made,
\* the requests sent, the answer, what the call returned or raised, the
\* events it dispatched (dispatched[from+1..to]) and whether it is over
Send(content, toks, requests, answer, ret, exc, from, to, done) ==
    [content |-> content, tokens |-> toks, requests |-> requests,
     answer |-> answer, ret |-> ret, exc |-> exc, from |-> from, to |-> to,
     done |-> done]

\* a send_message call is awaiting the answer to its POST
Sending == sends # <<>> /\ ~sends[Len(sends)].done

\* youtube.py:314-333  send_message up to the POST: the body reads
\* self._stream.chat_id, the headers self.access_token, and the request goes
\* out on self._session
SendRequest(content) ==
    /\ ~Sending
    /\ Len(sends) < MaxSends
    /\ LET n == Len(dispatched)
           exc == IF stream = NoStream THEN Exc("AttributeError", 0, "_stream")
                  ELSE IF session = "none" THEN Exc("AttributeError", 0, "_session")
                  ELSE IF session = "closed"
                       THEN Exc("RuntimeError", 0, "Session is closed")
                  ELSE NoExc
       IN /\ sends' = Append(sends,
               IF exc # NoExc
               THEN Send(content, tokens, <<>>, NoAnswer, NoMessage, exc, n, n, TRUE)
               ELSE Send(content, tokens,
                         <<Post(access_token(tokens), stream.chat_id, content)>>,
                         NoAnswer, NoMessage, NoExc, n, n, FALSE))
          /\ last' = Step("send_message", "", <<content>>, NoEvent, exc)
    /\ UNCHANGED <<busVars, busLogs, pollVars, authVars, runVars, resolutions, builds>>

\* a variant of SendOutcome that dispatches MessageSentEvent whatever the
\* answer holds
SendOutcome_IgnoresError(r, s, noQueue) ==
    IF r.kind = "fail" THEN [ret |-> NoMessage, exc |-> Exc("ClientError", 0, ""),
                             events |-> <<>>]
    ELSE [ret |-> from_youtube(r.item, s), exc |-> NoExc,
          events |-> <<MkEvent("MessageSentEvent", <<from_youtube(r.item, s)>>)>>]

\* youtube.py:334-343  send_message from the answer on: the error check,
\* Message.from_youtube, the dispatch and the return
SendOutcome(r, s, noQueue) ==
    IF r.kind = "fail"
    THEN [ret |-> NoMessage, exc |-> Exc("ClientError", 0, ""), events |-> <<>>]
    ELSE IF r.kind = "error"
    THEN [ret |-> NoMessage, exc |-> HTTPError(r.code, "message"), events |-> <<>>]
    ELSE IF ~r.item.complete
    THEN [ret |-> NoMessage, exc |-> Exc("KeyError", 0, ""), events |-> <<>>]
    ELSE IF noQueue
    THEN [ret |-> NoMessage, exc |-> NoEventQueue, events |-> <<>>]
    ELSE [ret |-> from_youtube(r.item, s), exc |-> NoExc,
          events |-> <<MkEvent("MessageSentEvent", <<from_youtube(r.item, s)>>)>>]

\* youtube.py:333-343  the POST is answered and send_message ends
SendResponse(r) ==
    /\ Sending
    /\ LET n == Len(sends)
           out == SendOutcome(r, stream, NoQueue)
       IN /\ queue' = PutAll(queue, out.events)
          /\ dispatched' = dispatched \o out.events
          /\ sends' = [sends EXCEPT ![n] =
                         Send(sends[n].content, sends[n].tokens, sends[n].requests, r,
                              out.ret, out.exc, Len(dispatched),
                              Len(dispatched) + Len(out.events), TRUE)]
          /\ last' = Step("send_message", "", <<sends[n].content>>, NoEvent, out.exc)
    /\ UNCHANGED <<hasQueue, callbacks, procPc, procEvent, procIdx, dequeued, invoked,
                   pollVars, authVars, runVars, resolutions, builds>>

(***************************************************************************)
(* SpecSend: a running bot (queue, session and stream exist, the bot is    *)
(* authorised and the refresh task is on the loop) whose callbacks call    *)
(* send_message; the auto-refresh task replaces the tokens meanwhile.      *)
(***************************************************************************)
InitSend ==
    /\ InitBus
    /\ hasQueue = TRUE
    /\ stream = FetchedStream
    /\ pollPc = "idle"
    /\ page_token = ""
    /\ sleepMs = 0
    /\ polls = <<>>
    /\ hasSecrets = TRUE
    /\ tokens \in {StoredBlob, ExchangedBlob}
    /\ tokenFile = File(tokens)
    /\ refreshPc = "sleeping"
    /\ tokenOps = <<>>
    /\ refreshLog = <<Slept(tokens.expires_in)>>
    /\ runPc = "wait_poll"
    /\ read_only = FALSE
    /\ session = "open"
    /\ sessionsCreated = 1
    /\ sessionsClosed = 0
    /\ loopClosed = FALSE
    /\ tasks = {"refresh"}
    /\ pending = {}
    /\ cancelReq = "none"
    /\ cancelledAt = <<>>
    /\ runExc = NoExc
    /\ resolutions = <<>>
    /\ sends = <<>>
    /\ builds = <<>>

UserSends == \E content \in Contents : SendRequest(content)

ServerAnswersSend == \E r \in SendAnswers : SendResponse(r)

SendRefreshWakes == Attempts < MaxRunRefreshes /\ RefreshWake

NextSend ==
    \/ UserSends
    \/ ServerAnswersSend
    \/ SendRefreshWakes
    \/ ServerAnswersRefresh

SpecSend == InitSend /\ [][NextSend]_vars

\* the MessageSentEvents dispatched so far
SentEvents == SelectSeq(dispatched, LAMBDA e : e.type = "MessageSentEvent")

\* the send_message calls that got a body without an error object
SentOk == SelectSeq(sends, LAMBDA s : s.done /\ s.answer.kind = "ok")

\* C21: every send_message call makes exactly one POST, and it carries the
\* access token the bot held when the call was made.  A call answered with
\* an error object raises HTTPError(code, message), dispatches nothing and
\* sends nothing more; a call answered without one returns a Message and
\* dispatches exactly one MessageSentEvent carrying that Message; no other
\* MessageSentEvent is ever dispatched.
C21_SendMessageOnePostOneEvent ==
    /\ \A i \in 1..Len(sends) :
         LET s == sends[i] IN
         /\ Len(s.requests) = 1
         /\ s.requests[1].method = "POST"
         /\ s.requests[1].messageText = s.content
         /\ s.requests[1].authorization =
              <<"Bearer", IF "access_token" \in s.tokens.keys
                          THEN s.tokens.access_token ELSE "None">>
         /\ (s.done /\ s.answer.kind = "error") =>
              /\ s.exc = HTTPError(s.answer.code, "message")
              /\ s.to = s.from
              /\ s.ret = NoMessage
         /\ (s.done /\ s.answer.kind = "ok") =>
              /\ s.exc = NoExc
              /\ s.to = s.from + 1
              /\ dispatched[s.to] = MkEvent("MessageSentEvent", <<s.ret>>)
              /\ s.ret.id = s.answer.item.id
              /\ s.ret.stream = stream
    /\ Len(SentEvents) = Len(SentOk)

\* two calls are over: the first was answered with an error object, the
\* second, sent with a token refreshed in between, with the new resource
C21_Witness ==
    /\ Len(sends) = 2
    /\ sends[1].done /\ sends[1].answer.kind = "error"
    /\ sends[2].done /\ sends[2].answer.kind = "ok"
    /\ sends[2].requests[1].authorization = <<"Bearer", "refreshed">>
    /\ sends[1].requests[1].authorization # sends[2].requests[1].authorization
    /\ Len(SentEvents) = 1

(***************************************************************************)
(* Stream resolution: chatto/stream.py and YouTubeBot.fetch_stream_info,   *)
(* chatto/youtube.py:188-222.                                              *)
(***************************************************************************)
\* video ids, as given by user code or found by the search
VideoIds == {"s1", "s2"}

\* youtube.py:107  the channel_id the bot was constructed with
ChannelId == "UC1"

\* one item of a /videos answer: its liveStreamingDetails may hold
\* activeLiveChatId (has_chat; the value may be empty) and actualStartTime
VideoItem(has_chat, chat_id, started) ==
    [has_chat |-> has_chat, activeLiveChatId |-> chat_id, started |-> started]

NoVideoItem == VideoItem(FALSE, "", FALSE)

\* what GET /videos returns: kind "ok" is a body whose items hold one video,
\* "empty" a body whose items list is empty (no such video), "error" a body
\* with an error object, "fail" a request that raises
VideosAnswer(kind, item, code) == [kind |-> kind, item |-> item, code |-> code]

VideosAnswers ==
    {VideosAnswer("ok", VideoItem(TRUE, "c1", TRUE), 0),
     VideosAnswer("ok", VideoItem(TRUE, "c1", FALSE), 0),
     VideosAnswer("ok", VideoItem(TRUE, "", TRUE), 0),
     VideosAnswer("ok", VideoItem(FALSE, "", TRUE), 0),
     VideosAnswer("empty", NoVideoItem, 0),
     VideosAnswer("error", NoVideoItem, 403),
     VideosAnswer("error", NoVideoItem, 500),
     VideosAnswer("fail", NoVideoItem, 0)}

NoVideosAnswer == VideosAnswer("none", NoVideoItem, 0)

\* what GET /search returns: kind "ok" is a body whose items hold the video
\* ids found, in order
SearchAnswer(kind, items, code) == [kind |-> kind, items |-> items, code |-> code]

SearchAnswers ==
    {SearchAnswer("ok", <<>>, 0),
     SearchAnswer("ok", <<"s1">>, 0),
     SearchAnswer("ok", <<"s2", "s1">>, 0),
     SearchAnswer("error", <<>>, 403),
     SearchAnswer("fail", <<>>, 0)}

NoSearchAnswer == SearchAnswer("none", <<>>, 0)

\* a GET request of the resolver: the endpoint and the id in its query
Get(endpoint, id) == [method |-> "GET", endpoint |-> endpoint, id |-> id]

\* errors.py:53-55 with the message of stream.py:71
NoActiveChat == Exc("ChannelNotLive", 0, "the stream has no active chat ID")

\* what a resolution gives: the Stream constructed (NoStream when none was),
\* the exception raised and the requests made, in order
Resolved(s, exc, requests) == [stream |-> s, exc |-> exc, requests |-> requests]

\* stream.py:47-51  Stream(id, chat_id, start_time)
Stream(id, chat_id) == [id |-> id, chat_id |-> chat_id]

\* a variant of HasChatId that only asks whether the key is there
HasChatId_KeyOnly(item) == item.has_chat

\* stream.py:69-70  chat_id = details.get("activeLiveChatId", None), and
\* `not chat_id` is true of None and of the empty string
HasChatId(item) == item.has_chat /\ item.activeLiveChatId # ""

\* stream.py:53-75  Stream.from_id
from_id(stream_id, va) ==
    LET requests == <<Get("videos", stream_id)>> IN
    IF va.kind = "fail" THEN Resolved(NoStream, Exc("ClientError", 0, ""), requests)
    ELSE IF va.kind = "error"
    THEN Resolved(NoStream, HTTPError(va.code, "message"), requests)
    ELSE IF va.kind = "empty"
    THEN Resolved(NoStream, Exc("IndexError", 0, ""), requests)
    ELSE IF ~HasChatId(va.item) THEN Resolved(NoStream, NoActiveChat, requests)
    ELSE IF ~va.item.started
    THEN Resolved(NoStream, Exc("KeyError", 0, "actualStartTime"), requests)
    ELSE Resolved(Stream(stream_id, va.item.activeLiveChatId), NoExc, requests)

\* a variant of FirstResult that takes the last video found
FirstResult_Last(items) == items[Len(items)]

\* stream.py:101  items[0]["id"]["videoId"]
FirstResult(items) == items[1]

\* stream.py:77-103  Stream.from_channel_id
from_channel_id(channel_id, sa, va) ==
    LET requests == <<Get("search", channel_id)>> IN
    IF sa.kind = "fail" THEN Resolved(NoStream, Exc("ClientError", 0, ""), requests)
    ELSE IF sa.kind = "error"
    THEN Resolved(NoStream, HTTPError(sa.code, "message"), requests)
    ELSE IF sa.items = <<>> THEN Resolved(NoStream, ChannelNotLive, requests)
    ELSE LET details == from_id(FirstResult(sa.items), va)
         IN Resolved(details.stream, details.exc, requests \o details.requests)

\* what a details lookup hands on: the id asked for and the item found
StreamData(id, item) == [id |-> id, item |-> item]

NoStreamData == StreamData("", NoVideoItem)

\* data, or an exception, with the requests made to get it
Fetched(data, exc, requests) == [data |-> data, exc |-> exc, requests |-> requests]

\* Stream.fetch_stream_data, called at youtube.py:213: the details lookup of
\* one video, with the error object checked before the items are read
fetch_stream_data(stream_id, va) ==
    LET requests == <<Get("videos", stream_id)>> IN
    IF va.kind = "fail" THEN Fetched(NoStreamData, Exc("ClientError", 0, ""), requests)
    ELSE IF va.kind = "error"
    THEN Fetched(NoStreamData, HTTPError(va.code, "message"), requests)
    ELSE IF va.kind = "empty"
    THEN Fetched(NoStreamData, Exc("IndexError", 0, ""), requests)
    ELSE Fetched(StreamData(stream_id, va.item), NoExc, requests)

\* Stream.fetch_active_stream_data, called at youtube.py:217: the search for
\* the live broadcast of the channel, then the details lookup of the first
\* video found
fetch_active_stream_data(channel_id, sa, va) ==
    LET requests == <<Get("search", channel_id)>> IN
    IF sa.kind = "fail" THEN Fetched(NoStreamData, Exc("ClientError", 0, ""), requests)
    ELSE IF sa.kind = "error"
    THEN Fetched(NoStreamData, HTTPError(sa.code, "message"), requests)
    ELSE IF sa.items = <<>> THEN Fetched(NoStreamData, ChannelNotLive, requests)
    ELSE LET details == fetch_stream_data(FirstResult(sa.items), va)
         IN Fetched(details.data, details.exc, requests \o details.requests)

\* Stream.from_youtube, called at youtube.py:212, 216 and by
\* tests/test_stream.py:77-86: the Stream of a details item, or ChannelNotLive
Stream_from_youtube(data) ==
    IF ~HasChatId(data.item) THEN Resolved(NoStream, NoActiveChat, <<>>)
    ELSE IF ~data.item.started
    THEN Resolved(NoStream, Exc("KeyError", 0, "actualStartTime"), <<>>)
    ELSE Resolved(Stream(data.id, data.item.activeLiveChatId), NoExc, <<>>)

\* errors.py:58-61, raised at youtube.py:209
NoSession == Exc("NoSession", 0, "no active session")

\* what fetch_stream_info leaves behind: the Stream constructed, the bot's
\* _stream afterwards, the requests made, the events dispatched and the
\* exception raised
StreamOutcome(made, s, requests, events, exc) ==
    [made |-> made, stream |-> s, requests |-> requests, events |-> events,
     exc |-> exc]

\* youtube.py:212, 216  `self._stream = ...` is reached only when the right
\* hand side did not raise
AssignStream(cur, made) == IF made.exc = NoExc THEN made.stream ELSE cur

\* youtube.py:188-222  fetch_stream_info(stream_id) on a bot whose session is
\* sess and whose _stream is cur
fetch_stream_info(stream_id, sess, cur, noQueue, sa, va) ==
    IF sess = "none" THEN StreamOutcome(NoStream, cur, <<>>, <<>>, NoSession)
    ELSE IF sess = "closed"
    THEN StreamOutcome(NoStream, cur, <<>>, <<>>,
                       Exc("RuntimeError", 0, "Session is closed"))
    ELSE LET got == IF stream_id # ""
                    THEN fetch_stream_data(stream_id, va)
                    ELSE fetch_active_stream_data(ChannelId, sa, va)
             made == IF got.exc # NoExc THEN Resolved(NoStream, got.exc, <<>>)
                     ELSE Stream_from_youtube(got.data)
             s == AssignStream(cur, made)
         IN IF made.exc # NoExc
            THEN StreamOutcome(NoStream, s, got.requests, <<>>, made.exc)
            ELSE IF noQueue
            THEN StreamOutcome(made.stream, s, got.requests, <<>>, NoEventQueue)
            ELSE StreamOutcome(made.stream, s, got.requests,
                               <<MkEvent("StreamFetchedEvent", <<s>>)>>, NoExc)

\* a record of `resolutions`: who resolved (fetch_stream_info, or user code
\* calling Stream.from_id / Stream.from_channel_id), the stream id passed, the
\* answers of the two endpoints, the outcome, the bot's _stream before, and
\* the events dispatched (dispatched[from+1..to])
Resolution(by, stream_id, sa, va, out, before, from) ==
    [by |-> by, stream_id |-> stream_id, search |-> sa, videos |-> va,
     made |-> out.made, requests |-> out.requests, exc |-> out.exc,
     before |-> before, after |-> out.stream, from |-> from,
     to |-> from + Len(out.events)]

\* what a resolution with outcome out leaves behind
StreamEffects(by, stream_id, sa, va, out) ==
    /\ stream' = out.stream
    /\ queue' = PutAll(queue, out.events)
    /\ dispatched' = dispatched \o out.events
    /\ resolutions' = Append(resolutions,
                             Resolution(by, stream_id, sa, va, out, stream,
                                        Len(dispatched)))
    /\ last' = Step(by, "", <<stream_id>>, NoEvent, out.exc)
    /\ UNCHANGED <<hasQueue, callbacks, procPc, procEvent, procIdx, dequeued, invoked,
                   pollPc, page_token, sleepMs, polls, authVars, runVars, sends, builds>>

\* the answers the two endpoints can give to one resolution: the search is
\* not asked when a stream id is given, and the details are not asked for
\* when the search finds nothing
ResolverAnswers(stream_id) ==
    IF stream_id # "" THEN {<<NoSearchAnswer, va>> : va \in VideosAnswers}
    ELSE {<<sa, NoVideosAnswer>> :
            sa \in {a \in SearchAnswers : a.kind # "ok" \/ a.items = <<>>}}
         \cup {<<sa, va>> :
                 sa \in {a \in SearchAnswers : a.kind = "ok" /\ a.items # <<>>},
                 va \in VideosAnswers}

\* youtube.py:188-222, 389  one call of fetch_stream_info
FetchStreamInfo(stream_id, sa, va) ==
    /\ Len(resolutions) < MaxResolutions
    /\ StreamEffects("fetch_stream_info", stream_id, sa, va,
                     fetch_stream_info(stream_id, session, stream, NoQueue, sa, va))

\* stream.py:53-75  user code calls Stream.from_id with a session of its own
CallFromId(stream_id, va) ==
    /\ Len(resolutions) < MaxResolutions
    /\ LET r == from_id(stream_id, va)
       IN StreamEffects("from_id", stream_id, NoSearchAnswer, va,
                        StreamOutcome(r.stream, stream, r.requests, <<>>, r.exc))

\* stream.py:77-103  user code calls Stream.from_channel_id
CallFromChannelId(sa, va) ==
    /\ Len(resolutions) < MaxResolutions
    /\ LET r == from_channel_id(ChannelId, sa, va)
       IN StreamEffects("from_channel_id", "", sa, va,
                        StreamOutcome(r.stream, stream, r.requests, <<>>, r.exc))

(***************************************************************************)
(* SpecStream: stream resolution on its own.  The bot has a session or     *)
(* not and an event queue or not; fetch_stream_info is called with and     *)
(* without a stream id, as run() does (youtube.py:389), and user code      *)
(* calls the two constructors of stream.py directly.                       *)
(***************************************************************************)
InitStream ==
    /\ InitBus
    /\ hasQueue \in BOOLEAN
    /\ stream = NoStream
    /\ pollPc = "idle"
    /\ page_token = ""
    /\ sleepMs = 0
    /\ polls = <<>>
    /\ \E sess \in {"none", "open"} : InitBot(FALSE, NoFile, "idle", sess, {FALSE})

BotFetchesStream ==
    \E stream_id \in VideoIds \cup {""} :
        \E a \in ResolverAnswers(stream_id) : FetchStreamInfo(stream_id, a[1], a[2])

UserCallsFromId ==
    \E stream_id \in VideoIds :
        \E a \in ResolverAnswers(stream_id) : CallFromId(stream_id, a[2])

UserCallsFromChannelId ==
    \E a \in ResolverAnswers("") : CallFromChannelId(a[1], a[2])

NextStream ==
    \/ BotFetchesStream
    \/ UserCallsFromId
    \/ UserCallsFromChannelId

SpecStream == InitStream /\ [][NextStream]_vars

\* the resolution asked the details endpoint, and the video it found has no
\* activeLiveChatId, or an empty one
LookupWithoutChat(r) ==
    /\ r.requests # <<>>
    /\ r.requests[Len(r.requests)].endpoint = "videos"
    /\ r.videos.kind = "ok"
    /\ (~r.videos.item.has_chat \/ r.videos.item.activeLiveChatId = "")

\* the StreamFetchedEvents dispatched so far
FetchedEvents == SelectSeq(dispatched, LAMBDA e : e.type = "StreamFetchedEvent")

\* C22: a stream resolution whose details lookup finds no activeLiveChatId
\* (absent or empty) raises ChannelNotLive("the stream has no active chat
\* ID"), constructs no Stream, leaves the bot's stream as it was and
\* dispatches nothing; so every Stream ever constructed, held by the bot or
\* carried by a StreamFetchedEvent has a non-empty chat_id.
C22_NoChatIdNoStream ==
    /\ \A i \in 1..Len(resolutions) :
         LET r == resolutions[i] IN
         /\ LookupWithoutChat(r) =>
              /\ r.exc = Exc("ChannelNotLive", 0, "the stream has no active chat ID")
              /\ r.made = NoStream
              /\ r.after = r.before
              /\ r.to = r.from
         /\ r.made # NoStream => r.made.chat_id # ""
         /\ r.after # NoStream => r.after.chat_id # ""
    /\ stream # NoStream => stream.chat_id # ""
    /\ \A k \in 1..Len(FetchedEvents) : FetchedEvents[k].args[1].chat_id # ""

\* the bot resolved a stream, and a second fetch_stream_info whose lookup
\* found a video with an empty activeLiveChatId left that stream in place
C22_Witness ==
    /\ Len(resolutions) = 2
    /\ resolutions[1].by = "fetch_stream_info"
    /\ resolutions[1].exc = NoExc
    /\ resolutions[2].by = "fetch_stream_info"
    /\ LookupWithoutChat(resolutions[2])
    /\ resolutions[2].videos.item.has_chat
    /\ stream = resolutions[1].made
    /\ stream # NoStream
    /\ Len(FetchedEvents) = 1

\* resolution r had a session to make requests with
HadSession(r) == r.exc.type \notin {"NoSession", "RuntimeError"}

\* resolution r was given a stream id
ByStreamId(r) == r.stream_id # ""

\* C23: a stream resolution given a stream id makes one details lookup for
\* that id and no search.  Given only the channel id it makes one search for
\* the live broadcast of the channel, then one details lookup for the video id
\* of the first result; when the search finds nothing it raises ChannelNotLive
\* and makes no details lookup.
C23_ResolverRequestSequence ==
    \A i \in 1..Len(resolutions) :
        LET r == resolutions[i] IN
        HadSession(r) =>
          /\ ByStreamId(r) => r.requests = <<Get("videos", r.stream_id)>>
          /\ (~ByStreamId(r) /\ r.search.kind = "ok" /\ r.search.items # <<>>) =>
               r.requests = <<Get("search", ChannelId),
                              Get("videos", r.search.items[1])>>
          /\ (~ByStreamId(r) /\ r.search.kind = "ok" /\ r.search.items = <<>>) =>
               /\ r.exc.type = "ChannelNotLive"
               /\ r.requests = <<Get("search", ChannelId)>>
               /\ r.made = NoStream

\* the bot resolved the stream "s1" by id, then resolved by channel id when
\* the search found "s2" before "s1", and now holds the stream "s2"
C23_Witness ==
    /\ Len(resolutions) = 2
    /\ resolutions[1].by = "fetch_stream_info"
    /\ resolutions[1].stream_id = "s1"
    /\ resolutions[1].after.id = "s1"
    /\ resolutions[2].by = "fetch_stream_info"
    /\ resolutions[2].stream_id = ""
    /\ resolutions[2].search.items = <<"s2", "s1">>
    /\ Len(resolutions[2].requests) = 2
    /\ stream.id = "s2"

(***************************************************************************)
(* SpecGet: the GET requests of one session, as run() makes them           *)
(* (youtube.py:389-391): fetch_stream_info once, with or without a stream  *)
(* id, and when it succeeded the poll_for_messages task; or one call of a  *)
(* constructor of stream.py by user code.  The queue and the session exist.*)
(***************************************************************************)
InitGet ==
    /\ InitBus
    /\ hasQueue = TRUE
    /\ stream = NoStream
    /\ pollPc = "idle"
    /\ page_token = ""
    /\ sleepMs = 0
    /\ polls = <<>>
    /\ InitBot(FALSE, NoFile, "idle", "open", {FALSE})

\* youtube.py:389  run_until_complete(fetch_stream_info(stream_id))
GetFetchesStream ==
    /\ resolutions = <<>>
    /\ BotFetchesStream

\* stream.py:53-103  user code resolves a stream of its own instead
GetCallsFromId ==
    /\ resolutions = <<>>
    /\ UserCallsFromId

GetCallsFromChannelId ==
    /\ resolutions = <<>>
    /\ UserCallsFromChannelId

\* youtube.py:391, 262  create_task(poll_for_messages()), once the stream is
\* there
GetStartsPolling ==
    /\ pollPc = "idle"
    /\ stream # NoStream
    /\ pollPc' = "request"
    /\ last' = Step("create_tasks", "", <<>>, NoEvent, NoExc)
    /\ UNCHANGED <<busVars, busLogs, stream, page_token, sleepMs, polls, botVars>>

NextGet ==
    \/ GetFetchesStream
    \/ GetCallsFromId
    \/ GetCallsFromChannelId
    \/ GetStartsPolling
    \/ PollRequest
    \/ ServerAnswers
    \/ PollWake

SpecGet == InitGet /\ [][NextGet]_vars

\* resolution r got a body with an error object from the endpoint it asked
\* last
ErrorAnswered(r) ==
    /\ r.requests # <<>>
    /\ LET asked == r.requests[Len(r.requests)].endpoint
       IN \/ asked = "search" /\ r.search.kind = "error"
          \/ asked = "videos" /\ r.videos.kind = "error"

\* the code of the error object resolution r got
ErrorCodeOf(r) ==
    IF r.requests[Len(r.requests)].endpoint = "search"
    THEN r.search.code ELSE r.videos.code

\* C24: whenever a GET is answered with a body holding an error object, the
\* call raises HTTPError with the code and the first message of that object
\* and uses nothing else of the body: a stream resolution constructs no
\* Stream, makes no further request and dispatches nothing, and a poll
\* dispatches neither ChatPolledEvent nor MessageCreatedEvent and leaves
\* page_token as it was.
C24_ErrorObjectRaisesFirst ==
    /\ \A i \in 1..Len(resolutions) :
         LET r == resolutions[i] IN
         ErrorAnswered(r) =>
           /\ r.exc = HTTPError(ErrorCodeOf(r), "message")
           /\ r.made = NoStream
           /\ r.after = r.before
           /\ r.to = r.from
           /\ (r.search.kind = "error" => Len(r.requests) = 1)
    /\ \A n \in 1..Len(polls) :
         polls[n].resp.kind = "error" =>
           /\ polls[n].exc = HTTPError(polls[n].resp.code, "message")
           /\ polls[n].to = polls[n].from
           /\ polls[n].after = polls[n].token

\* the stream was resolved through a search, and the poll loop has since got
\* a page and then a body with an error object
C24_Witness ==
    /\ resolutions # <<>>
    /\ Len(resolutions[1].requests) = 2
    /\ Len(polls) >= 2
    /\ polls[1].resp.kind = "ok"
    /\ polls[2].resp.kind = "error"
    /\ polls[2].token # ""
    /\ Len(dispatched) = 2

\* the poll iteration p met an HTTPError with a code in 400..499
MetClientError(p) ==
    p.exc.type = "HTTPError" /\ 400 <= p.exc.code /\ p.exc.code <= 499

\* C25: when the poll loop of a running bot meets an HTTPError with a code
\* in 400..499, poll_for_messages ends by raising it: the poll task is done
\* with that exception and not with a result, and when run() has ended it has
\* raised the same HTTPError.
C25_ClientErrorPropagates ==
    \A n \in 1..Len(polls) :
        MetClientError(polls[n]) =>
          /\ runPc \in {"dispatch_ready", "wait_poll"} => pollPc = "failed"
          /\ (RunEnded /\ pollPc = "failed") => runExc = polls[n].exc

\* C26: run(read_only=True) never calls authorise, and it still starts the
\* bot: once the stream is resolved, the next step of run() has created the
\* tasks, the poll loop among them, without an exception, and goes on to
\* dispatch ReadyEvent.
C26_ReadOnlyRunsWithoutAuthorisation ==
    /\ [](read_only => \A i \in 1..Len(tokenOps) : tokenOps[i].by # "authorise")
    /\ [][(read_only /\ runPc = "create_tasks" /\ runPc' # "create_tasks") =>
            /\ runPc' = "dispatch_ready"
            /\ pollPc' = "request"
            /\ runExc' = NoExc]_vars

(***************************************************************************)
(* SpecExact: SpecEvents with callbacks subscribed under the base class    *)
(* Event as well (events.py:47-49, 186-207).                               *)
(***************************************************************************)
\* the event types callbacks are subscribed to in SpecExact; events of both
\* types of BusDispatches are dispatched, so MessageCreatedEvent has no
\* subscribers
ExactTypes == {"Event", "ReadyEvent"}

ExactSubscribes ==
    \E t \in ExactTypes, cbList \in BusCallbackLists :
        /\ Subscribed + Len(cbList) <= MaxSubs
        /\ subscribe(t, cbList)

NextExact ==
    \/ ExactSubscribes
    \/ UserCreatesQueue
    \/ UserDispatches
    \/ ProcessStart
    \/ ProcessGet
    \/ CallbackReturns
    \/ CallbackRaises

SpecExact == InitEvents /\ [][NextExact]_vars

\* the callbacks subscribed so far under exactly the type t
SubscribedUnder(t) == IF t \in DOMAIN callbacks THEN callbacks[t] ELSE <<>>

\* C27: every invocation process() makes for a dequeued event is of a
\* callback subscribed under that event's own class, at its position in that
\* list: a callback subscribed only under another type, the base class Event
\* included, is never invoked for it.  An event of a type without subscribers
\* is taken from the queue, nothing is invoked for it and process() goes on.
C27_ExactClassDispatch ==
    /\ \A i \in 1..Len(invoked) :
         LET c == invoked[i]
             own == SubscribedUnder(dequeued[c.ev].event.type)
         IN /\ c.arg = dequeued[c.ev].event
            /\ c.idx \in 1..Len(own)
            /\ c.cb = own[c.idx]
    /\ \A k \in 1..Len(dequeued) :
         SubscribedUnder(dequeued[k].event.type) = <<>> =>
           /\ \A i \in 1..Len(invoked) : invoked[i].ev # k
           /\ procPc \in {"get", "cb"}
           /\ (k = Len(dequeued) => procPc = "get")

\* cb1 is subscribed under Event, cb2 under ReadyEvent; a ReadyEvent went to
\* cb2 alone, and a MessageCreatedEvent, which has no subscribers, was
\* consumed without an invocation
C27_Witness ==
    /\ SubscribedUnder("Event") = <<"cb1">>
    /\ SubscribedUnder("ReadyEvent") = <<"cb2">>
    /\ SubscribedUnder("MessageCreatedEvent") = <<>>
    /\ Len(dequeued) = 2
    /\ dequeued[1].event.type = "ReadyEvent"
    /\ dequeued[2].event.type = "MessageCreatedEvent"
    /\ Len(invoked) = 1
    /\ invoked[1].cb = "cb2"
    /\ invoked[1].st = "returned"
    /\ procPc = "get"
    /\ queue = <<>>

(***************************************************************************)
(* SpecPrereg: an EventHandler whose callbacks are all subscribed before   *)
(* the queue is created, as the fixture of tests/test_events.py:55-57 and  *)
(* test_process_events do it; then as SpecEvents.                          *)
(***************************************************************************)
SubscribesBeforeQueue == NoQueue /\ UserSubscribes

NextPrereg ==
    \/ SubscribesBeforeQueue
    \/ UserCreatesQueue
    \/ UserDispatches
    \/ ProcessStart
    \/ ProcessGet
    \/ CallbackReturns
    \/ CallbackRaises

SpecPrereg == InitEvents /\ [][NextPrereg]_vars

\* process() is through with the k-th event it dequeued
Handled(k) == k < Len(dequeued) \/ procPc = "get"

\* C28: subscribe on a handler without a queue raises nothing, appends its
\* callbacks in argument order to the list of that event type, touches no
\* other list and leaves the queue absent; create_queue keeps every list as
\* it is; and every callback registered before create_queue is invoked for
\* each event of its type dispatched afterwards, once process() is through
\* with that event.
C28_SubscribeBeforeQueue ==
    /\ [][last'.op = "subscribe" =>
            /\ last'.exc = NoExc
            /\ ~hasQueue /\ ~hasQueue'
            /\ (IF last'.type \in DOMAIN callbacks' THEN callbacks'[last'.type]
                ELSE <<>>) = SubscribedUnder(last'.type) \o last'.args
            /\ \A t \in DOMAIN callbacks \ {last'.type} :
                 t \in DOMAIN callbacks' /\ callbacks'[t] = callbacks[t]]_vars
    /\ [][last'.op = "create_queue" => hasQueue' /\ callbacks' = callbacks]_vars
    /\ [](\A k \in 1..Len(dequeued) :
            Handled(k) =>
              LET own == SubscribedUnder(dequeued[k].event.type) IN
              \A idx \in 1..Len(own) :
                  \E i \in 1..Len(invoked) :
                      /\ invoked[i].ev = k
                      /\ invoked[i].cb = own[idx]
                      /\ invoked[i].arg = dequeued[k].event)

(***************************************************************************)
(* Message.from_youtube, chatto/message.py, and Channel.from_author,       *)
(* chatto/channel.py: the values built from a raw liveChatMessage.         *)
(***************************************************************************)
\* Python values of different types, which never compare equal
Str(s) == [kind |-> "str", value |-> s]
Member(name) == [kind |-> "MessageTypes", value |-> name]
None == [kind |-> "NoneType", value |-> ""]

\* message.py:41-52  the members of MessageTypes, as <<name, value>>, in the
\* order get_type tests them (message.py:65-75)
MessageTypes ==
    <<<<"ChatEndedEvent", "chatEndedEvent">>,
      <<"MessageDeletedEvent", "messageDeletedEvent">>,
      <<"NewSponsorEvent", "newSponsorEvent">>,
      <<"SponsorOnlyModeEndedEvent", "sponsorOnlyModeEndedEvent">>,
      <<"SponsorOnlyModeStartedEvent", "sponsorOnlyModeStartedEvent">>,
      <<"MemberMilestoneChatEvent", "memberMilestoneChatEvent">>,
      <<"SuperChatEvent", "superChatEvent">>,
      <<"SuperStickerEvent", "superStickerEvent">>,
      <<"TextMessageEvent", "textMessageEvent">>,
      <<"Tombstone", "tombstone">>,
      <<"UserBannedEvent", "userBannedEvent">>>>

RECURSIVE GetTypeFrom(_, _)
\* message.py:65-75  the chain of tests from the i-th on; a string that
\* matches none falls off the end of the function, which returns None
GetTypeFrom(i, type) ==
    IF i > Len(MessageTypes) THEN None
    ELSE IF type = MessageTypes[i][2] THEN Member(MessageTypes[i][1])
    ELSE GetTypeFrom(i + 1, type)

\* message.py:63-75  Message.get_type
get_type(type) == GetTypeFrom(1, type)

\* an ISO 8601 timestamp text: the hour of the day and the UTC offset in hours
Timestamp(hour, offset) == [hour |-> hour, offset |-> offset]

\* an aware datetime; two of them are equal when they are the same instant
Datetime(instant) == [instant |-> instant]

\* message.py:85  dateutil's parse: the instant, in seconds of the day, UTC
parse_ts(ts) == Datetime((ts.hour - ts.offset) * 3600)

\* the authorDetails of a liveChatMessage resource
AuthorDetails(id, name, verified, owner, sponsor, moderator) ==
    [channelId |-> id, channelUrl |-> <<"https://youtube.com/channel", id>>,
     displayName |-> name, profileImageUrl |-> <<"https://youtube.com/avatar", id>>,
     isVerified |-> verified, isChatOwner |-> owner, isChatSponsor |-> sponsor,
     isChatModerator |-> moderator]

\* channel.py:35-62  Channel(...)
Channel(id, url, name, avatar_url, is_verified, is_owner, is_sponsor, is_moderator) ==
    [id |-> id, url |-> url, name |-> name, avatar_url |-> avatar_url,
     is_verified |-> is_verified, is_owner |-> is_owner, is_sponsor |-> is_sponsor,
     is_moderator |-> is_moderator]

\* channel.py:64-86  Channel.from_author
from_author(data) ==
    Channel(data.channelId, data.channelUrl, data.displayName, data.profileImageUrl,
            data.isVerified, data.isChatOwner, data.isChatSponsor,
            data.isChatModerator)

\* a liveChatMessage resource with the parts id, snippet and authorDetails
RawMessage(id, type, publishedAt, displayMessage, authorDetails) ==
    [id |-> id,
     snippet |-> [type |-> type, publishedAt |-> publishedAt,
                  displayMessage |-> displayMessage],
     authorDetails |-> authorDetails]

\* message.py:54-61  Message(...)
Message(id, type, s, channel, published_at, content) ==
    [id |-> id, type |-> type, stream |-> s, channel |-> channel,
     published_at |-> published_at, content |-> content]

\* message.py:77-87  Message.from_youtube, with every field it sets
Message_from_youtube(item, s) ==
    Message(item.id, get_type(item.snippet.type), s,
            from_author(item.authorDetails), parse_ts(item.snippet.publishedAt),
            item.snippet.displayMessage)

\* the strings the server sends as snippet.type: the eleven documented for
\* MessageTypes and one that is not among them
TypeStrings == {MessageTypes[i][2] : i \in 1..Len(MessageTypes)} \cup {"pollEvent"}

\* the authors of the payloads
Authors ==
    {AuthorDetails("UC1", "Test Channel", TRUE, FALSE, TRUE, FALSE),
     AuthorDetails("UC2", "Owner", FALSE, TRUE, FALSE, TRUE)}

\* the payloads Message.from_youtube is applied to
RawMessages ==
    {RawMessage("m1", type, Timestamp(h, o), text, a) :
        type \in TypeStrings, h \in {0, 1}, o \in {0, 1}, text \in {"This is a test!"},
        a \in Authors}

\* the streams passed to Message.from_youtube
BuildStreams == {Stream("s1", "c1"), Stream("s2", "c2")}

\* a record of `builds`: the function applied, its arguments and its result
Built(fn, data, s, value) == [fn |-> fn, data |-> data, stream |-> s, value |-> value]

\* message.py:77-87  one call of Message.from_youtube
BuildMessage(item, s) ==
    /\ Len(builds) < MaxBuilds
    /\ builds' = Append(builds, Built("Message.from_youtube", item, s,
                                      Message_from_youtube(item, s)))
    /\ last' = Step("from_youtube", "", <<item.id>>, NoEvent, NoExc)
    /\ UNCHANGED <<busVars, busLogs, pollVars, authVars, runVars, resolutions, sends>>

\* channel.py:64-86  one call of Channel.from_author
BuildChannel(data) ==
    /\ Len(builds) < MaxBuilds
    /\ builds' = Append(builds, Built("Channel.from_author", data, NoStream,
                                      from_author(data)))
    /\ last' = Step("from_author", "", <<data.channelId>>, NoEvent, NoExc)
    /\ UNCHANGED <<busVars, busLogs, pollVars, authVars, runVars, resolutions, sends>>

(***************************************************************************)
(* SpecBuild: Message.from_youtube and Channel.from_author applied to raw  *)
(* payloads, as tests/test_message.py and tests/test_channel.py do.        *)
(***************************************************************************)
BuildsMessage == \E item \in RawMessages, s \in BuildStreams : BuildMessage(item, s)

BuildsChannel == \E data \in Authors : BuildChannel(data)

NextBuild ==
    \/ BuildsMessage
    \/ BuildsChannel

SpecBuild == InitEvents /\ [][NextBuild]_vars

\* the Message built directly from the fields of payload item and stream s,
\* as tests/fixtures.py:118-127 builds it: type is the string of snippet.type
DirectMessage(item, s) ==
    Message(item.id, Str(item.snippet.type), s,
            Channel(item.authorDetails.channelId, item.authorDetails.channelUrl,
                    item.authorDetails.displayName,
                    item.authorDetails.profileImageUrl,
                    item.authorDetails.isVerified, item.authorDetails.isChatOwner,
                    item.authorDetails.isChatSponsor,
                    item.authorDetails.isChatModerator),
            Datetime((item.snippet.publishedAt.hour
                      - item.snippet.publishedAt.offset) * 3600),
            item.snippet.displayMessage)

\* C29: the value Message.from_youtube or Channel.from_author builds from a
\* raw payload equals, field by field, the value built directly from the
\* fields of the payload; the type of the Message is the payload's
\* snippet.type value and its stream is the stream passed in.
C29_BuiltEqualsDirect ==
    \A i \in 1..Len(builds) :
        LET b == builds[i] IN
        IF b.fn = "Channel.from_author"
        THEN b.value = Channel(b.data.channelId, b.data.channelUrl,
                               b.data.displayName, b.data.profileImageUrl,
                               b.data.isVerified, b.data.isChatOwner,
                               b.data.isChatSponsor, b.data.isChatModerator)
        ELSE /\ b.value = DirectMessage(b.data, b.stream)
             /\ b.value.type = Str(b.data.snippet.type)
             /\ b.value.stream = b.stream

(***************************************************************************)
(* SpecNoQueue: poll_for_messages awaited by user code that made the       *)
(* session and fetched the stream by hand and never called create_queue    *)
(* (run() does, youtube.py:383).  fetch_stream_info has stored the stream  *)
(* (youtube.py:211-220) before its own dispatch raised (youtube.py:222).   *)
(* The queue may be created by other code while the loop runs.             *)
(***************************************************************************)
InitNoQueue ==
    /\ InitBus
    /\ hasQueue = FALSE
    /\ stream = FetchedStream
    /\ pollPc = "request"
    /\ page_token = ""
    /\ sleepMs = 0
    /\ polls = <<>>
    /\ InitBot(FALSE, NoFile, "idle", "open", {FALSE})

NextNoQueue ==
    \/ PollRequest
    \/ ServerAnswers
    \/ PollWake
    \/ UserCreatesQueue

SpecNoQueue == InitNoQueue /\ [][NextNoQueue]_vars

\* C30: a NoEventQueue raised by dispatch inside the poll loop ends the poll
\* task with that exception: the poll in which it was raised is the last
\* one, the task has failed, and no retry sleep was started.
C30_NoEventQueueEndsPollTask ==
    \A n \in 1..Len(polls) :
        polls[n].exc = NoEventQueue =>
          /\ n = Len(polls)
          /\ pollPc = "failed"
          /\ ~polls[n].slept

\* C31: when stream resolution raises ChannelNotLive during a run, the run
\* goes on: fetch_stream_info is still to be called again (a retry), run()
\* holds no exception, and the run never ends with ChannelNotLive.
C31_ChannelNotLiveRetried ==
    /\ (last.op = "fetch_stream_info" /\ last.exc.type = "ChannelNotLive") =>
         (runPc = "fetch_stream" /\ runExc = NoExc)
    /\ runExc.type # "ChannelNotLive"

\* C32: every Message built by Message.from_youtube has a type that is a
\* member of the MessageTypes enumeration, whatever string snippet.type is.
C32_TypeIsEnumMember ==
    \A i \in 1..Len(builds) :
        builds[i].fn = "Message.from_youtube" =>
          /\ builds[i].value.type.kind = "MessageTypes"
          /\ \E k \in 1..Len(MessageTypes) :
                 builds[i].value.type = Member(MessageTypes[k][1])

\* the MessageCreatedEvents dispatched during poll iteration p
CreatedIn(p) ==
    {EventsOf(p)[k] : k \in {j \in 1..Len(EventsOf(p)) :
                                EventsOf(p)[j].type = "MessageCreatedEvent"}}

\* C33: a chat item is dispatched as a MessageCreatedEvent at most once: when
\* the same cursor is sent again after a failed iteration and the server
\* serves the same page again, no item dispatched in the failed iteration is
\* dispatched again in the retry.
C33_ItemDispatchedAtMostOnce ==
    \A m, n \in DOMAIN polls :
        (/\ m < n
         /\ polls[m].token = polls[n].token
         /\ polls[m].resp.items = polls[n].resp.items) =>
            CreatedIn(polls[m]) \cap CreatedIn(polls[n]) = {}

\* C34: one sleep separates any two consecutive requests of the poll loop:
\* an iteration that succeeded sleeps the pollingIntervalMillis of its
\* response, one that failed with anything but a 4xx HTTPError sleeps 5
\* seconds, one that failed with a 4xx HTTPError is the last; a request is
\* only sent once the sleep of the iteration before it is over.
C34_OneSleepBetweenRequests ==
    /\ \A i \in DOMAIN polls :
           LET p == polls[i] IN
           /\ Answered(p) =>
                IF p.exc = NoExc
                THEN p.slept /\ p.ms = p.resp.pollingIntervalMillis
                ELSE IF p.exc.type = "HTTPError" /\ p.exc.code \in 400..499
                THEN ~p.slept /\ i = Len(polls)
                ELSE p.slept /\ p.ms = 5000
           /\ i < Len(polls) => (Answered(p) /\ p.slept /\ p.ms > 0)
    /\ pollPc = "sleeping" =>
           /\ polls # <<>>
           /\ polls[Len(polls)].slept
           /\ sleepMs = polls[Len(polls)].ms
           /\ sleepMs > 0
    /\ (pollPc = "request" /\ polls # <<>>) =>
           (polls[Len(polls)].slept /\ sleepMs = 0)

\* a successful iteration slept its polling interval, a failed one slept 5
\* seconds, and a request followed each of the two sleeps
C34_Witness ==
    /\ Len(polls) >= 3
    /\ polls[1].exc = NoExc /\ polls[1].ms = 1000
    /\ polls[2].exc = HTTPError(500, "message") /\ polls[2].ms = 5000
    /\ pollPc = "awaiting"

\* C35: the first poll iteration that succeeds, after any number of failed
\* attempts, is sent with the empty page_token and dispatches one
\* ChatPolledEvent and no MessageCreatedEvent; nothing was dispatched by the
\* failed attempts before it.
C35_FirstSuccessSuppressed ==
    \A i \in DOMAIN polls :
        LET p == polls[i] IN
        (/\ Answered(p)
         /\ p.exc = NoExc
         /\ \A j \in 1..(i - 1) : polls[j].exc # NoExc) =>
            /\ p.token = ""
            /\ p.from = 0
            /\ EventsOf(p) = <<MkEvent("ChatPolledEvent", <<p.resp>>)>>
            /\ CreatedIn(p) = {}
            /\ p.after = p.resp.nextPageToken

\* two attempts failed, one with a 500 and one with a failed request, and the
\* third was answered with a page of MaxItems convertible items
C35_Witness ==
    /\ Len(polls) = 3
    /\ polls[1].exc = HTTPError(500, "message")
    /\ polls[2].exc.type = "ClientError"
    /\ polls[3].exc = NoExc
    /\ polls[3].resp.kind = "ok"
    /\ Len(polls[3].resp.items) = MaxItems
    /\ \A k \in 1..MaxItems : polls[3].resp.items[k].complete
    /\ pollPc = "sleeping"

\* the types of the events dispatched so far, in order
DispatchedTypes == [k \in DOMAIN dispatched |-> dispatched[k].type]

\* the events run() enqueues before the ReadyEvent
StartupTypes ==
    IF read_only THEN <<"StreamFetchedEvent">>
    ELSE <<"AuthorisedEvent", "StreamFetchedEvent">>

\* s is a prefix of t
IsPrefix(s, t) == Len(s) <= Len(t) /\ s = SubSeq(t, 1, Len(s))

\* C36: run() enqueues its start-up events in the order AuthorisedEvent (when
\* authorise is called), StreamFetchedEvent, ReadyEvent: until the ReadyEvent
\* is dispatched the queue has received a prefix of that sequence and no
\* ChatPolledEvent or MessageCreatedEvent, also once the poll task exists;
\* the events dispatched before a ReadyEvent are exactly the start-up events.
C36_StartupEventOrder ==
    /\ runPc \in {"start", "create_session", "authorise", "fetch_stream",
                  "create_tasks", "dispatch_ready"} =>
           /\ IsPrefix(DispatchedTypes, StartupTypes)
           /\ \A k \in DOMAIN dispatched :
                  dispatched[k].type \notin {"ChatPolledEvent", "MessageCreatedEvent",
                                             "ReadyEvent"}
    /\ \A k \in DOMAIN dispatched :
           dispatched[k].type = "ReadyEvent" =>
               SubSeq(DispatchedTypes, 1, k - 1) = StartupTypes

\* the poll task sent its request before the ReadyEvent was dispatched, and
\* the ChatPolledEvent of its answer is the fourth event
C36_Witness ==
    /\ Len(dispatched) >= 4
    /\ SubSeq(DispatchedTypes, 1, 4) =
           <<"AuthorisedEvent", "StreamFetchedEvent", "ReadyEvent", "ChatPolledEvent">>
    /\ polls # <<>>
    /\ polls[1].from = 2

\* authorise() has returned without raising
Authorised == \E i \in DOMAIN tokenOps : tokenOps[i].by = "authorise" /\ tokenOps[i].exc = NoExc

\* blob is not empty and holds an access token and a refresh token
HoldsTokens(blob) == Truthy(blob) /\ {"access_token", "refresh_token"} \subseteq blob.keys

\* C37: once authorise() has returned successfully the bot's token blob is
\* never empty and always holds an access_token and a refresh_token, and every
\* AuthorisedEvent dispatched carries such a blob.
C37_OnceAuthorisedAlwaysAuthorised ==
    /\ Authorised => HoldsTokens(tokens)
    /\ \A k \in DOMAIN dispatched :
           dispatched[k].type = "AuthorisedEvent" => HoldsTokens(dispatched[k].args[2])

(***************************************************************************)
(* SpecRefresh: authorise and the auto-refresh task as in SpecAuth, with a *)
(* token endpoint whose success answers may carry a refresh_token of their *)
(* own.                                                                    *)
(***************************************************************************)
RotatingAnswers == RefreshAnswers \cup {"rotated"}

RefreshAuthorises ==
    \E force \in BOOLEAN, intro \in Introspections, refresh \in RotatingAnswers,
       exchange \in ExchangeAnswers :
        RunAuthorise(force, Answers(intro, refresh, exchange))

ServerAnswersRotating == \E answer \in RotatingAnswers : RefreshAnswer(answer)

NextRefresh ==
    \/ RefreshAuthorises
    \/ AuthCreatesRefreshTask
    \/ RefreshStart
    \/ RefreshWake
    \/ ServerAnswersRotating

SpecRefresh == InitAuth /\ [][NextRefresh]_vars

\* token operation op sent a refresh that the endpoint answered with a success
RefreshSucceeded(op) == Performed(op.ops, "refresh") /\ op.ans.refresh \in {"ok", "rotated"}

\* the blob token operation i handed to _refresh_tokens: the one authorise
\* loaded from the token file, or the bot's tokens when the task woke
GivenTo(i) ==
    IF tokenOps[i].by = "authorise" THEN tokenOps[i].file.content
    ELSE tokenOps[i - 1].tokens

\* C38: a refresh answered with a success yields a blob with the refresh_token
\* of the blob given to _refresh_tokens, whatever the body holds; after any
\* number of successful refreshes of the auto-refresh task the bot's
\* refresh_token is the one it held when authorise returned.
C38_RefreshKeepsRefreshToken ==
    /\ \A i \in DOMAIN tokenOps :
           RefreshSucceeded(tokenOps[i]) =>
               /\ tokenOps[i].exc = NoExc
               /\ "refresh_token" \in tokenOps[i].tokens.keys
               /\ tokenOps[i].tokens.refresh_token = GivenTo(i).refresh_token
    /\ \A i \in DOMAIN tokenOps :
           (i > 1 /\ \A j \in 2..i : RefreshSucceeded(tokenOps[j])) =>
               /\ tokenOps[i].tokens.refresh_token = tokenOps[1].tokens.refresh_token
               /\ i = Len(tokenOps) =>
                      tokens.refresh_token = tokenOps[1].tokens.refresh_token

\* the task refreshed twice, the first answer carrying a refresh_token of its
\* own, and the bot still holds the refresh_token of the exchange
C38_Witness ==
    /\ Len(tokenOps) = 3
    /\ tokenOps[1].by = "authorise" /\ Performed(tokenOps[1].ops, "exchange")
    /\ tokenOps[2].by = "auto_refresh" /\ tokenOps[2].ans.refresh = "rotated"
    /\ tokenOps[3].by = "auto_refresh" /\ tokenOps[3].ans.refresh = "ok"
    /\ tokens.refresh_token = ExchangedBlob.refresh_token
    /\ tokens.access_token = "refreshed"

\* the auto-refresh task has ended with an exception while run() waits for
\* the poll task
RefreshDied == refreshPc = "failed" /\ runPc = "wait_poll"

\* C39: an exception that ends the auto-refresh task changes nothing of the
\* poll task, the process task or run(); afterwards both tasks can still take
\* their next step, and run() leaves its wait for the poll task only when that
\* task has returned or on KeyboardInterrupt.
C39_RefreshFailureIsolated ==
    /\ [](RefreshDied =>
            /\ pollPc = "awaiting" => ENABLED RunPollAnswered
            /\ (pollPc = "request" /\ Len(polls) < MaxRunPolls) => ENABLED RunPollRequests
            /\ (pollPc = "sleeping" /\ Len(polls) < MaxPolls) => ENABLED RunPollWakes
            /\ procPc = "idle" => ENABLED RunProcessStarts
            /\ (procPc = "get" /\ queue # <<>>) => ENABLED RunProcessGets
            /\ procPc = "cb" => ENABLED RunCallbackReturns)
    /\ [][(refreshPc # "failed" /\ refreshPc' = "failed") =>
            /\ UNCHANGED <<pollVars, procPc, procEvent, procIdx, queue, hasQueue,
                           callbacks>>
            /\ UNCHANGED <<runPc, runExc, tasks, pending, cancelReq, session,
                           loopClosed>>]_vars
    /\ [][(RefreshDied /\ runPc' # "wait_poll") =>
            (pollPc = "returned" \/ last'.exc.type = "KeyboardInterrupt")]_vars

\* the refresh request failed and ended the task; afterwards the poll task
\* received a page and the process task took an event from the queue
C39_Witness ==
    /\ RefreshDied
    /\ \E i \in DOMAIN tokenOps :
           /\ tokenOps[i].by = "auto_refresh"
           /\ tokenOps[i].exc.type = "ClientError"
           /\ polls # <<>>
           /\ polls[Len(polls)].resp.kind = "ok"
           /\ polls[Len(polls)].from >= tokenOps[i].to
    /\ last.op = "poll_response"
    /\ pollPc = "sleeping"

(***************************************************************************)
(* SpecDeliver: the EventHandler from the point where the fixture of       *)
(* tests/test_events.py leaves it: callbacks are subscribed and the queue  *)
(* is created.  Events are dispatched and process() runs, with the         *)
(* scheduling the event loop gives it: the task is resumed when the queue  *)
(* holds an event (events.py:150), and every callback it awaits returns or *)
(* raises in the end.                                                      *)
(***************************************************************************)
\* the callback lists subscribe calls can have built for one event type
SubscribedLists == UNION {[1..k -> CallbackIds] : k \in 1..MaxSubs}

\* events.py:118-134  the callbacks dict after any subscribe calls for the
\* event types of BusTypes, MaxSubs callbacks in all at most
SubscribedDicts ==
    {f \in UNION {[T -> SubscribedLists] : T \in SUBSET BusTypes} :
        SumLen(f, DOMAIN f) <= MaxSubs}

InitDeliver ==
    /\ queue = <<>>
    /\ callbacks \in SubscribedDicts
    /\ procPc = "idle"
    /\ procEvent = NoEvent
    /\ procIdx = 0
    /\ dispatched = <<>>
    /\ dequeued = <<>>
    /\ invoked = <<>>
    /\ last = Step("create_queue", "", <<>>, NoEvent, NoExc)
    /\ hasQueue = TRUE
    /\ stream = NoStream
    /\ pollPc = "idle"
    /\ page_token = ""
    /\ sleepMs = 0
    /\ polls = <<>>
    /\ InitBot(FALSE, NoFile, "idle", "none", {FALSE})

CallbackEnds == CallbackReturns \/ CallbackRaises

NextDeliver ==
    \/ UserDispatches
    \/ ProcessStart
    \/ ProcessGet
    \/ CallbackReturns
    \/ CallbackRaises

SpecDeliver ==
    /\ InitDeliver
    /\ [][NextDeliver]_vars
    /\ WF_vars(ProcessGet)
    /\ WF_vars(CallbackEnds)

\* process() is in its while loop
ProcessRunning == procPc \in {"get", "cb"}

\* C40: while process() is running, every event dispatched is eventually
\* dequeued; the events are dequeued once each, in dispatch order, and no
\* callback of the list is started twice for the same dequeued event.
C40_DeliveryLiveness ==
    /\ \A n \in 1..(MaxEvents + 1) :
           (Len(dispatched) >= n /\ ProcessRunning) ~> (Len(dequeued) >= n)
    /\ [](IsPrefix(DequeuedEvents, dispatched))
    /\ [](\A i, j \in DOMAIN invoked :
              (invoked[i].ev = invoked[j].ev /\ invoked[i].idx = invoked[j].idx)
                  => i = j)

\* MaxEvents events were dispatched and dequeued, two callbacks ran for the
\* first, one of which raised, and process() waits for the next event
C40_Witness ==
    /\ Len(dispatched) = MaxEvents
    /\ Len(dequeued) = MaxEvents
    /\ procPc = "get"
    /\ queue = <<>>
    /\ \E i \in DOMAIN invoked : invoked[i].st = "raised"
    /\ \E i \in DOMAIN invoked : invoked[i].idx = 2 /\ invoked[i].st = "returned"

=============================================================================
